---- MODULE Spec2Model ----
(***************************************************************************)
(* Publish-slot scheduler of tinysh-content-factory                        *)
(* (src/src/services/scheduler.py), the batch-schedule run that drives its *)
(* gap-filling allocator (src/src/main.py) and the schedule-uploads run    *)
(* that drives its fresh-batch calculator and its validator                *)
(* (src/src/workflow.py).                                                  *)
(*                                                                         *)
(* Time is counted in minutes since 00:00 UTC of day 0.  An aware datetime *)
(* is a record [wall, off]: the wall-clock fields (date, hour, minute) as  *)
(* minutes, and the UTC offset, in minutes, of the tzinfo it carries.  As  *)
(* with pytz, replace() and "+ timedelta" work on the wall-clock fields    *)
(* and keep the tzinfo (hence the offset) the value already carries; only  *)
(* astimezone() looks the offset up again.  Comparison, hashing and set    *)
(* membership of aware datetimes go by the UTC instant wall - off.         *)
(* Seconds and microseconds are always zeroed together with the minutes in *)
(* the code and are not represented.                                       *)
(***************************************************************************)
EXTENDS Integers, Sequences, FiniteSets, TLC

VARIABLES
    pc,             \* position of the batch-schedule run
    ctor_args,      \* arguments of the last VideoScheduler(...) call
    scheduler,      \* the VideoScheduler object (or the exception raised)
    now_utc,        \* the wall clock, datetime.now(pytz.UTC)
    existing_videos,\* the reservations the run was given (existing_videos)
    publish_times,  \* slots assigned so far by the run (UTC instants)
    clock_steps,    \* how many times the clock advanced during the run
    last_call,      \* what the latest calculate_next_available_slot did
    replay,         \* the first call of the run, and the same call made again
    schedule_call,  \* what the latest calculate_schedule was given and did
    validate_call,  \* what the latest validate_schedule was given and did
    platform,       \* the videos of the channel on the platform, newest first
    platform_before,\* the videos it held when the run started
    platform_changes,\* how many times others changed them during the run
    fetches,        \* calls of youtube.get_scheduled_videos made by the run
    snapshot,       \* what the first of them returned
    video_ids,      \* the ids get_scheduled_videos got from playlistItems().list
    in_flight,      \* commit calls (update_video_schedule, upload_video) that
                    \* have not returned
    commits,        \* the rows the commit loop is through with, in order
    api_failed,     \* whether a request of get_scheduled_videos raised
    channel,        \* the schedule section of the selected channel's configuration
    other           \* a second batch-schedule run for the same channel

schedule_vars == <<schedule_call, validate_call>>
batch_vars == <<platform, platform_before, platform_changes, fetches, snapshot, video_ids,
                in_flight, commits, api_failed>>
run_vars == <<channel, other>>

vars == <<pc, ctor_args, scheduler, now_utc, clock_steps, existing_videos,
          publish_times, last_call, replay, schedule_call, validate_call,
          platform, platform_before, platform_changes, fetches, snapshot, video_ids,
          in_flight, commits, api_failed, channel, other>>

----------------------------------------------------------------------------
(* Bounds of the model *)

\* first day of the modelled period (days since day 0)
Day0 == 10
\* rows of video_ids.csv handled by one run
MaxBatch == 3
\* changes others make to the channel's videos during one run
MaxPlatformChanges == 2
\* advances of the clock during one run
MaxClockSteps == 1
\* the largest video_count calculate_schedule is called with
MaxCount == 8
\* the longest list validate_schedule is called with directly
MaxList == 3

(* Program constants *)

\* for day_offset in range(30)
HorizonDays == 30
\* timedelta(minutes=5)
BufferMinutes == 5
\* the 0.1 hour an interval may be off by in validate_schedule, in minutes
ToleranceMinutes == 6
\* get_scheduled_videos(max_results=50)
MaxResults == 50
\* stop_after_attempt(3) of the @retry around the platform calls
StopAfterAttempt == 3
\* settings.youtube_privacy_status
SettingsPrivacyStatus == "private"

----------------------------------------------------------------------------
(* datetime arithmetic *)

DateOf(wall) == wall \div 1440
HourOf(wall) == (wall % 1440) \div 60
MinuteOf(wall) == wall % 60

\* the absolute instant of an aware datetime
Utc(dt) == dt.wall - dt.off

\* dt + timedelta(minutes=m): field arithmetic, tzinfo kept
Plus(dt, m) == [dt EXCEPT !.wall = @ + m]

\* dt.replace(minute=0, second=0, microsecond=0)
ReplaceMinute0(dt) == [dt EXCEPT !.wall = @ - MinuteOf(@)]

\* dt.replace(hour=h): the other fields and the tzinfo are kept
ReplaceHour(dt, h) == [dt EXCEPT !.wall = DateOf(@) * 1440 + h * 60 + MinuteOf(@)]

\* dt.replace(hour=h, minute=0, second=0, microsecond=0)
ReplaceHourMinute0(dt, h) == [dt EXCEPT !.wall = DateOf(@) * 1440 + h * 60]

\* Python's floor division a // b for b # 0
FloorDiv(a, b) == IF b > 0 THEN a \div b ELSE (0 - a) \div (0 - b)

----------------------------------------------------------------------------
(* Time zones (pytz) *)

\* The zones of the model: offset `base` before the instant `trans` (UTC),
\* offset `after` from then on.  America/Chicago is modelled around its
\* autumn change (02:00 CDT = 07:00 UTC, UTC-5 -> UTC-6) on day Day0 + 1.
Zones ==
    { [name |-> "UTC", base |-> 0, trans |-> 0, after |-> 0],
      [name |-> "Asia/Kolkata", base |-> 330, trans |-> 0, after |-> 330],
      [name |-> "America/Chicago", base |-> -300,
       trans |-> (Day0 + 1) * 1440 + 420, after |-> -360] }

ZoneNames == {z.name : z \in Zones}

\* pytz.timezone(name); raises UnknownTimeZoneError for an unknown name
pytz_timezone(name) == CHOOSE z \in Zones : z.name = name

\* the offset in force in zone z at the instant u
ZoneOffset(z, u) == IF u >= z.trans THEN z.after ELSE z.base

\* tz.fromutc: the instant u as an aware datetime of zone z
FromUtc(z, u) == [wall |-> u + ZoneOffset(z, u), off |-> ZoneOffset(z, u)]

\* dt.astimezone(z)
AsTimezone(dt, z) == FromUtc(z, Utc(dt))

----------------------------------------------------------------------------
(* VideoScheduler construction *)

\* _calculate_slots_per_day; interval_hours = 0 raises ZeroDivisionError
\* before this value is formed (see VideoScheduler_init)
calculate_slots_per_day(start_hour, end_hour, interval_hours) ==
    FloorDiv(end_hour - start_hour, interval_hours) + 1

\* what a raising call leaves behind
Raised(e) == [status |-> "raised", error |-> e]

\* VideoScheduler.__init__ with the four parameters resolved (argument or
\* settings default): the object, or the exception the call raises
VideoScheduler_init(timezone, start_hour, end_hour, interval_hours) ==
    IF timezone \notin ZoneNames THEN Raised("UnknownTimeZoneError")
    ELSE IF start_hour >= end_hour THEN Raised("ValueError")
    ELSE IF interval_hours = 0 THEN Raised("ZeroDivisionError")
    ELSE [status |-> "ok",
          timezone |-> pytz_timezone(timezone),
          start_hour |-> start_hour,
          end_hour |-> end_hour,
          interval_hours |-> interval_hours,
          slots_per_day |->
              calculate_slots_per_day(start_hour, end_hour, interval_hours)]

----------------------------------------------------------------------------
(* Reservations on the wire *)

\* A publishAt value.  A timestamp string is modelled by its format and its
\* fields: "ms000Z" is 2025-11-15T12:00:00.000Z, "Z" is 2025-11-15T12:00:00Z,
\* "offset" is 2025-11-15T12:00:00+05:30 (off in minutes).  "none" is a
\* missing key or None, "empty" the empty string, "garbage" a string
\* datetime.fromisoformat rejects.
Wire(fmt, u, off) ==
    [fmt |-> fmt, date |-> DateOf(u + off), hour |-> HourOf(u + off),
     minute |-> MinuteOf(u + off), off |-> off]

NoPublishAt(fmt) == [fmt |-> fmt, date |-> 0, hour |-> 0, minute |-> 0, off |-> 0]

\* pt.strftime("%Y-%m-%dT%H:%M:%S.000Z") of a UTC datetime
strftime_ms000Z(pt) ==
    [fmt |-> "ms000Z", date |-> DateOf(pt), hour |-> HourOf(pt),
     minute |-> MinuteOf(pt), off |-> 0]

\* parse_rfc3339_datetime: strips ".000Z"/"Z", datetime.fromisoformat, and
\* UTC attached when the string carries no offset.  ok = FALSE: it raises.
parse_rfc3339_datetime(s) ==
    IF s.fmt \in {"ms000Z", "Z"}
    THEN [ok |-> TRUE,
          dt |-> [wall |-> s.date * 1440 + s.hour * 60 + s.minute, off |-> 0]]
    ELSE IF s.fmt = "offset"
    THEN [ok |-> TRUE,
          dt |-> [wall |-> s.date * 1440 + s.hour * 60 + s.minute, off |-> s.off]]
    ELSE [ok |-> FALSE, dt |-> [wall |-> 0, off |-> 0]]

\* `if publish_at_str:` : None and "" are skipped before parsing
Truthy(s) == s.fmt \notin {"none", "empty"}

\* whether the loop over existing_scheduled_videos adds this video's time:
\* not when the value is falsy, nor when parsing raises (the except clause
\* swallows the exception)
adds_scheduled_time(video) ==
    Truthy(video.publishAt) /\ parse_rfc3339_datetime(video.publishAt).ok

\* dt_local.replace(minute=0, second=0, microsecond=0) of a parsable publishAt
normalized_local(self, publish_at_str) ==
    ReplaceMinute0(AsTimezone(parse_rfc3339_datetime(publish_at_str).dt, self.timezone))

\* the loop with the try around it instead of inside it: the first value
\* that fails to parse ends it
RECURSIVE scheduled_times_until_failure(_, _)
scheduled_times_until_failure(self, videos) ==
    IF videos = <<>> THEN <<>>
    ELSE IF ~Truthy(Head(videos).publishAt)
    THEN scheduled_times_until_failure(self, Tail(videos))
    ELSE IF ~parse_rfc3339_datetime(Head(videos).publishAt).ok THEN <<>>
    ELSE <<ReplaceMinute0(AsTimezone(
               parse_rfc3339_datetime(Head(videos).publishAt).dt, self.timezone))>>
         \o scheduled_times_until_failure(self, Tail(videos))

\* the datetimes the loop adds, in the order it adds them
scheduled_times_added(self, existing_scheduled_videos) ==
    LET kept == SelectSeq(existing_scheduled_videos, adds_scheduled_time)
    IN  [i \in 1..Len(kept) |-> normalized_local(self, kept[i].publishAt)]

\* scheduled_times_local after the loop
scheduled_times_local(self, existing_scheduled_videos) ==
    LET added == scheduled_times_added(self, existing_scheduled_videos)
    IN  {added[i] : i \in 1..Len(added)}

----------------------------------------------------------------------------
(* calculate_next_available_slot *)

\* earliest_valid_time
earliest_valid_time(now_local) == Plus(ReplaceMinute0(now_local), BufferMinutes)

\* the while loop with `<` for `<=`
RECURSIVE day_slots_before_end_hour(_, _, _, _)
day_slots_before_end_hour(self, check_date, current_slot, acc) ==
    IF HourOf(current_slot.wall) < self.end_hour
    THEN LET next == Plus(current_slot, self.interval_hours * 60)
         IN  IF DateOf(next.wall) # DateOf(check_date.wall)
             THEN Append(acc, current_slot)
             ELSE day_slots_before_end_hour(self, check_date, next,
                                            Append(acc, current_slot))
    ELSE acc

\* the while loop generating one day's slots, from current_slot on
RECURSIVE day_slots(_, _, _, _)
day_slots(self, check_date, current_slot, acc) ==
    IF HourOf(current_slot.wall) <= self.end_hour
    THEN LET next == Plus(current_slot, self.interval_hours * 60)
         IN  IF DateOf(next.wall) # DateOf(check_date.wall)
             THEN Append(acc, current_slot)
             ELSE day_slots(self, check_date, next, Append(acc, current_slot))
    ELSE acc

\* the for loop over day_offset, from day_offset on
RECURSIVE potential_slots_from(_, _, _)
potential_slots_from(self, current_day, day_offset) ==
    IF day_offset >= HorizonDays THEN <<>>
    ELSE LET check_date == Plus(current_day, day_offset * 1440)
         IN  day_slots(self, check_date, ReplaceHour(check_date, self.start_hour), <<>>)
             \o potential_slots_from(self, current_day, day_offset + 1)

\* potential_slots after potential_slots.sort()
potential_slots(self, now_local) ==
    SortSeq(potential_slots_from(self,
                ReplaceHourMinute0(now_local, self.start_hour), 0),
            LAMBDA a, b : Utc(a) < Utc(b))

\* the scan without the test `slot not in scheduled_times_local`
first_free_ignoring_occupied(slots, earliest, occupied_utc) ==
    LET free == {i \in 1..Len(slots) : Utc(slots[i]) >= Utc(earliest)}
    IN  IF free = {} THEN 0
        ELSE CHOOSE i \in free : \A j \in free : i <= j

\* the scan without the test `slot >= earliest_valid_time`
first_free_ignoring_earliest(slots, earliest, occupied_utc) ==
    LET free == {i \in 1..Len(slots) : Utc(slots[i]) \notin occupied_utc}
    IN  IF free = {} THEN 0
        ELSE CHOOSE i \in free : \A j \in free : i <= j

\* index of the first slot the final for loop returns, 0 when it falls through
first_free(slots, earliest, occupied_utc) ==
    LET free == {i \in 1..Len(slots) :
                    Utc(slots[i]) >= Utc(earliest) /\ Utc(slots[i]) \notin occupied_utc}
    IN  IF free = {} THEN 0
        ELSE CHOOSE i \in free : \A j \in free : i <= j

\* max(scheduled_times_local): the last of the added datetimes in
\* ascending order of their instants
max_scheduled(added) ==
    LET sorted == SortSeq(added, LAMBDA a, b : Utc(a) < Utc(b))
    IN  sorted[Len(sorted)]

\* the fallback after the scan, for non-empty scheduled_times_local
fallback_after_last(self, added) ==
    LET last_scheduled == max_scheduled(added)
        next_slot == Plus(last_scheduled, self.interval_hours * 60)
    IN  IF HourOf(next_slot.wall) > self.end_hour
        THEN ReplaceHour(Plus(next_slot, 1440), self.start_hour)
        ELSE IF HourOf(next_slot.wall) < self.start_hour
        THEN ReplaceHour(next_slot, self.start_hour)
        ELSE next_slot

\* the fallback for empty scheduled_times_local
fallback_tomorrow(self, now_local) ==
    ReplaceHourMinute0(Plus(now_local, 1440), self.start_hour)

\* a scheduler whose window start moves with every call
scheduler_shifted_by_call(self) == [self EXCEPT !.start_hour = @ + 1]

\* a calculate_schedule that keeps the hour it started from as the
\* object's start_hour
scheduler_keeping_start(self) == [self EXCEPT !.start_hour = @ + 2]

\* the scheduler object after a call of calculate_next_available_slot: the
\* method assigns no attribute of self
scheduler_after_call(self) == self

\* the scheduler object after a call of calculate_schedule, which reads
\* self.timezone, self.start_hour, self.end_hour and self.interval_hours
\* and assigns none of them
scheduler_after_calculate_schedule(self) == self

\* the scheduler object after a call of validate_schedule, returning or
\* raising: it reads the same attributes and assigns none
scheduler_after_validate_schedule(self) == self

\* calculate_next_available_slot(existing_scheduled_videos) at clock `now`:
\* the UTC instant returned and the return statement that produced it
calculate_next_available_slot(self, existing_scheduled_videos, now) ==
    LET now_local == FromUtc(self.timezone, now)
        added == scheduled_times_added(self, existing_scheduled_videos)
        occupied_utc == {Utc(added[i]) : i \in 1..Len(added)}
        slots == potential_slots(self, now_local)
        k == first_free(slots, earliest_valid_time(now_local), occupied_utc)
    IN  IF k # 0
        THEN [slot |-> Utc(slots[k]), path |-> "scan"]
        ELSE IF Len(added) # 0
        THEN [slot |-> Utc(fallback_after_last(self, added)), path |-> "fallback_last"]
        ELSE [slot |-> Utc(fallback_tomorrow(self, now_local)), path |-> "fallback_tomorrow"]

----------------------------------------------------------------------------
(* calculate_schedule *)

\* The start_date argument: kind "none" is None, "naive" a datetime without
\* tzinfo (its fields in wall), "aware" a datetime with tzinfo (wall, off).
NoStartDate == [kind |-> "none", wall |-> 0, off |-> 0]
NaiveStartDate(wall) == [kind |-> "naive", wall |-> wall, off |-> 0]
AwareStartDate(u, off) == [kind |-> "aware", wall |-> u + off, off |-> off]

\* self.timezone.localize(dt) (is_dst=False): the naive fields with the
\* offset of the zone at that wall-clock time, the standard one when the
\* fields are ambiguous
Localize(z, wall) ==
    IF wall - z.after >= z.trans THEN [wall |-> wall, off |-> z.after]
    ELSE [wall |-> wall, off |-> z.base]

\* datetime.replace(hour=h) raises ValueError unless 0 <= h <= 23
ValidHour(h) == 0 <= h /\ h <= 23

\* (now_local + timedelta(days=1)).replace(hour=self.start_hour, minute=0, ...)
tomorrow_at_start_hour(self, now_local) ==
    ReplaceHourMinute0(Plus(now_local, 1440), self.start_hour)

\* next_interval_hour of the default start, for a clock reading in the window
next_interval_hour(self, now_local) ==
    LET hours_since_start == HourOf(now_local.wall) - self.start_hour
        intervals_passed == FloorDiv(hours_since_start, self.interval_hours)
    IN  self.start_hour + (intervals_passed + 1) * self.interval_hours

\* start_date when the argument is None
default_start(self, now_local) ==
    IF HourOf(now_local.wall) < self.start_hour
    THEN ReplaceHourMinute0(now_local, self.start_hour)
    ELSE IF HourOf(now_local.wall) >= self.end_hour
    THEN tomorrow_at_start_hour(self, now_local)
    ELSE IF next_interval_hour(self, now_local) <= self.end_hour
    THEN ReplaceHourMinute0(now_local, next_interval_hour(self, now_local))
    ELSE tomorrow_at_start_hour(self, now_local)

\* whether resolving the default start raises (replace with an hour that is
\* no hour of the day; not with start_hour < end_hour <= 23, interval >= 1)
default_start_raises(self, now_local) ==
    /\ HourOf(now_local.wall) >= self.start_hour
    /\ HourOf(now_local.wall) < self.end_hour
    /\ next_interval_hour(self, now_local) <= self.end_hour
    /\ ~ValidHour(next_interval_hour(self, now_local))

\* start_date before "Ensure start time is valid"
given_start(self, start_date, now) ==
    IF start_date.kind = "none" THEN default_start(self, FromUtc(self.timezone, now))
    ELSE IF start_date.kind = "naive" THEN Localize(self.timezone, start_date.wall)
    ELSE AsTimezone([wall |-> start_date.wall, off |-> start_date.off], self.timezone)

\* "Ensure start time is valid" and "Adjust minute/second to 0"
ensure_valid_start(self, start_date) ==
    ReplaceMinute0(
        IF HourOf(start_date.wall) < self.start_hour
        THEN ReplaceHourMinute0(start_date, self.start_hour)
        ELSE IF HourOf(start_date.wall) > self.end_hour
        THEN ReplaceHourMinute0(Plus(start_date, 1440), self.start_hour)
        ELSE start_date)

\* the loop appending the slot before looking at the next: one slot short
RECURSIVE schedule_from_one_short(_, _, _, _)
schedule_from_one_short(self, current_date, remaining, acc) ==
    IF remaining <= 1 THEN acc
    ELSE schedule_from_one_short(self, Plus(current_date, self.interval_hours * 60),
                                 remaining - 1, Append(acc, Utc(current_date)))

\* `for i in range(video_count)`: the UTC instants appended, `remaining`
\* iterations from current_date on
RECURSIVE schedule_from(_, _, _, _)
schedule_from(self, current_date, remaining, acc) ==
    IF remaining <= 0 THEN acc
    ELSE LET slot == IF HourOf(current_date.wall) > self.end_hour
                     THEN ReplaceHourMinute0(Plus(current_date, 1440), self.start_hour)
                     ELSE current_date
         IN  schedule_from(self, Plus(slot, self.interval_hours * 60),
                           remaining - 1, Append(acc, Utc(slot)))

\* calculate_schedule(video_count, start_date) at clock `now`: the list
\* returned (UTC instants) and the start_date the loop began at
calculate_schedule(self, video_count, start_date, now) ==
    IF video_count <= 0
    THEN [status |-> "ok", schedule |-> <<>>, start |-> [wall |-> 0, off |-> 0]]
    ELSE IF start_date.kind = "none"
            /\ default_start_raises(self, FromUtc(self.timezone, now))
    THEN [status |-> "ValueError", schedule |-> <<>>, start |-> [wall |-> 0, off |-> 0]]
    ELSE LET start == ensure_valid_start(self, given_start(self, start_date, now))
         IN  [status |-> "ok",
              schedule |-> schedule_from(self, start, video_count, <<>>),
              start |-> start]

----------------------------------------------------------------------------
(* validate_schedule *)

\* the hour check without its lower half
hour_above_range_only(self, dt) == HourOf(dt.wall) > self.end_hour

\* dt.hour < self.start_hour or dt.hour > self.end_hour
hour_out_of_range(self, dt) ==
    HourOf(dt.wall) < self.start_hour \/ HourOf(dt.wall) > self.end_hour

\* the interval check never failing: any same-day pair passes
interval_never_off(self, prev_dt, dt) == FALSE

\* abs(time_diff - interval_hours) > 0.1 in floating point when the
\* difference is exactly 6 minutes above (below) the interval: the rounding
\* of total_seconds() / 3600 decides, by the size of the interval
ExceedsWhenSixAbove(interval_hours) ==
    interval_hours \in {0 - 3, 0 - 2, 1, 2, 3} \cup 16..24
ExceedsWhenSixBelow(interval_hours) ==
    interval_hours \in {0 - 3, 0 - 2, 0 - 1, 2, 3, 4} \cup 17..24

\* the interval check between a datetime and the one before it in the
\* list: same date, and the difference off by more than 0.1 h.  The
\* difference of two aware datetimes is the difference of their instants.
interval_off(self, prev_dt, dt) ==
    /\ DateOf(prev_dt.wall) = DateOf(dt.wall)
    /\ LET time_diff == Utc(dt) - Utc(prev_dt)
           off_by == time_diff - self.interval_hours * 60
       IN  \/ off_by > ToleranceMinutes
           \/ off_by < 0 - ToleranceMinutes
           \/ off_by = ToleranceMinutes /\ ExceedsWhenSixAbove(self.interval_hours)
           \/ off_by = 0 - ToleranceMinutes /\ ExceedsWhenSixBelow(self.interval_hours)

\* validate_schedule(schedule) for a list of UTC datetimes (instants):
\* outcome "True" when it returns True; "ValueError" when it raises, with
\* the 1-based position (the message's "Video i") and the check that failed
validate_schedule(self, schedule) ==
    LET schedule_local == [i \in 1..Len(schedule) |-> FromUtc(self.timezone, schedule[i])]
        hour_fails(i) == hour_out_of_range(self, schedule_local[i])
        interval_fails(i) ==
            i > 1 /\ interval_off(self, schedule_local[i - 1], schedule_local[i])
        failing == {i \in 1..Len(schedule) : hour_fails(i) \/ interval_fails(i)}
    IN  IF failing = {}
        THEN [outcome |-> "True", video |-> 0, check |-> "none"]
        ELSE LET i == CHOOSE k \in failing : \A j \in failing : k <= j
             IN  [outcome |-> "ValueError", video |-> i,
                  check |-> IF hour_fails(i) THEN "hour" ELSE "interval"]

----------------------------------------------------------------------------
(* batch-schedule: the allocation loop *)

\* the list without the slots assigned so far
all_scheduled_not_fed_back(existing, assigned) == existing

\* the list with only the latest assigned slot fed back
all_scheduled_latest_only(existing, assigned) ==
    existing \o [i \in 1..(IF Len(assigned) = 0 THEN 0 ELSE 1) |->
                    [publishAt |-> strftime_ms000Z(assigned[Len(assigned)])]]

\* existing_videos + [{"publishAt": pt.strftime(...)} for pt in publish_times]
all_scheduled(existing, assigned) ==
    existing \o [i \in 1..Len(assigned) |-> [publishAt |-> strftime_ms000Z(assigned[i])]]

----------------------------------------------------------------------------
(* The platform (YouTubeService) *)

\* a video of the channel as videos().list reports it
PlatformVideo(video_id, privacy_status, publish_at) ==
    [id |-> video_id, privacyStatus |-> privacy_status, publishAt |-> publish_at]

\* video_id of row i of video_ids.csv, and the id the platform gives the
\* i-th file schedule-uploads uploads
RowId(i) == <<"row", i>>
UploadId(i) == <<"upload", i>>

\* whether the channel has a video of that id
HasVideo(videos, video_id) == \E i \in 1..Len(videos) : videos[i].id = video_id

\* playlistItems().list(playlistId=uploads, maxResults=max_results) and the
\* comprehension over its items: the ids of the newest max_results uploads
playlist_items_list(videos) ==
    [i \in 1..(IF Len(videos) < MaxResults THEN Len(videos) ELSE MaxResults) |->
        videos[i].id]

\* videos().list(part="snippet,status", id=",".join(video_ids)): the videos
\* of those ids the channel has at the time of the request, as they are then
videos_list(videos, ids) ==
    LET found == SelectSeq(ids, LAMBDA v : HasVideo(videos, v))
    IN  [k \in 1..Len(found) |->
            videos[CHOOSE i \in 1..Len(videos) : videos[i].id = found[k]]]

\* the loop over videos_response["items"]: the private ones with a
\* publishAt, as dicts of id and publishAt
scheduled_videos(items) ==
    LET kept == SelectSeq(items, LAMBDA v : v.privacyStatus = "private"
                                            /\ Truthy(v.publishAt))
    IN  [i \in 1..Len(kept) |-> [id |-> kept[i].id, publishAt |-> kept[i].publishAt]]

\* get_scheduled_videos without the except clause's `return []`
get_scheduled_videos_return_despite_error(request_raises, scheduled) == scheduled

\* what get_scheduled_videos returns: the list it built or, a request
\* having raised, the [] of `except Exception`
get_scheduled_videos_return(request_raises, scheduled) ==
    IF request_raises THEN <<>> ELSE scheduled

\* youtube.get_scheduled_videos() on a channel nobody changes between its
\* requests
get_scheduled_videos(videos, api_fails) ==
    get_scheduled_videos_return(
        api_fails, scheduled_videos(videos_list(videos, playlist_items_list(videos))))

\* an update whose body carries no publishAt
update_video_schedule_without_publish_at(videos, video_id, publish_at) ==
    [i \in 1..Len(videos) |->
        IF videos[i].id = video_id
        THEN [videos[i] EXCEPT !.privacyStatus = "private",
                               !.publishAt = NoPublishAt("none")]
        ELSE videos[i]]

\* the channel after a successful update_video_schedule(video_id=...,
\* publish_at=...): videos().update changes that video where it is
update_video_schedule(videos, video_id, publish_at) ==
    [i \in 1..Len(videos) |->
        IF videos[i].id = video_id
        THEN [videos[i] EXCEPT !.privacyStatus = "private",
                               !.publishAt = strftime_ms000Z(publish_at)]
        ELSE videos[i]]

\* publish_at=None of upload_video
PublishAtNone == 0 - 1

\* the status of the video a successful upload_video(privacy_status=...,
\* publish_at=...) inserts: privacy_status "None" stands for None
upload_video(privacy_status, publish_at) ==
    LET status == IF privacy_status = "None" THEN SettingsPrivacyStatus
                  ELSE privacy_status
    IN  [privacyStatus |-> IF publish_at # PublishAtNone /\ status # "private"
                           THEN "private" ELSE status,
         publishAt |-> IF publish_at # PublishAtNone THEN strftime_ms000Z(publish_at)
                       ELSE NoPublishAt("none")]

\* the channel after a successful delete_video(video_id)
delete_video(videos, video_id) == SelectSeq(videos, LAMBDA v : v.id # video_id)

\* updated_count and failed_count of batch_schedule after the rows in
\* `done`: += 1 after a call that returned, += 1 in the except clause
updated_count(done) == Cardinality({i \in 1..Len(done) : done[i].updated})
failed_count(done) == Cardinality({i \in 1..Len(done) : ~done[i].updated})

\* a retry that gives up one attempt later
retry_stops_one_attempt_later(attempt_number) == attempt_number >= StopAfterAttempt + 1

\* @retry(stop=stop_after_attempt(3), reraise=True): whether the exception
\* of this attempt is raised to the caller instead of being retried
retry_stops(attempt_number) == attempt_number >= StopAfterAttempt

\* VideoScheduler.__init__: `timezone or settings.youtube_timezone`
timezone_or_settings(timezone, settings_youtube_timezone) ==
    IF timezone = "None" THEN settings_youtube_timezone ELSE timezone

----------------------------------------------------------------------------
(* Inputs *)

\* constructor arguments: every combination of these
TimezoneInputs == ZoneNames \cup {"Mars/Olympus"}
StartHourInputs == {0, 6, 16, 20}
EndHourInputs == {6, 16, 23}
IntervalInputs == {-2, -1, 0, 1, 2, 3, 12}

\* the schedules of the channels whose runs are followed through: the
\* reference one, one whose interval neither divides the window nor stays
\* within the day, one with a single slot a day, and two that are rejected
ChannelSchedules ==
    {<<6, 16, 2>>, <<20, 23, 2>>, <<6, 16, 12>>, <<16, 6, 2>>, <<6, 16, 0>>}

\* the clock when the run starts, and the steps it advances by
ClockInputs == {Day0 * 1440 + m : m \in {330, 450, 1350}}
ClockSteps == {65, 900}

Video(s) == [publishAt |-> s]
Later(d, m) == (Day0 + d) * 1440 + m

\* reservations at the same times of day (minutes after 00:00 UTC) on each
\* of `days` days from the day before Day0 on
RECURSIVE DailyReservations(_, _)
DailyReservations(days, times) ==
    IF days = 0 THEN <<>>
    ELSE DailyReservations(days - 1, times)
         \o [i \in 1..Len(times) |-> Video(Wire("ms000Z", Later(days - 2, times[i]), 0))]

\* 06:00 in each zone of the model, as UTC times of day: all of them, and
\* those of the offsets in force after Day0 + 1
SixOClock == <<30, 360, 660, 720>>
SixOClockStandard == <<30, 360, 720>>

\* reservations held by the platform
ReservationInputs ==
    { <<>>,
      <<Video(NoPublishAt("none")), Video(NoPublishAt("empty")),
        Video(NoPublishAt("garbage"))>>,
      <<Video(Wire("Z", Later(0, 497), 0)), Video(NoPublishAt("garbage")),
        Video(Wire("offset", Later(1, 390), 330))>>,
      <<Video(Wire("ms000Z", Later(0, 360), 0)), Video(NoPublishAt("garbage")),
        Video(Wire("ms000Z", Later(0, 480), 0))>>,
      [i \in 1..48 |-> Video(Wire("ms000Z", Later(0, (i - 13) * 60), 0))],
      DailyReservations(HorizonDays + 1, SixOClockStandard),
      DailyReservations(HorizonDays + 3, SixOClock),
      DailyReservations(HorizonDays + 1, SixOClockStandard)
          \o <<Video(Wire("ms000Z", Later(40, 990), 0))>>,
      DailyReservations(HorizonDays + 3, SixOClock)
          \o <<Video(Wire("ms000Z", Later(40, 990), 0)), Video(NoPublishAt("garbage"))>>,
      DailyReservations(HorizonDays + 3, SixOClock)
          \o <<Video(Wire("Z", Later(40, 1390), 0))>> }

\* the videos of video_ids.csv as batch-upload left them (private, no
\* publishAt), newest first
UnscheduledRows ==
    [i \in 1..MaxBatch |->
        PlatformVideo(RowId(MaxBatch + 1 - i), "private", NoPublishAt("none"))]

\* the same videos after an earlier batch-schedule run gave row i the
\* slot of 06:00 UTC + 2 (i - 1) hours of Day0
ScheduledRows ==
    [i \in 1..MaxBatch |->
        PlatformVideo(RowId(MaxBatch + 1 - i), "private",
                      Wire("ms000Z", Later(0, 360 + 120 * (MaxBatch - i)), 0))]

\* videos of the channel that are not of video_ids.csv: two scheduled at
\* 12:00 and 14:00 UTC of Day0, and max_results public ones
OthersVideos ==
    <<PlatformVideo(<<"q", 1>>, "private", Wire("ms000Z", Later(0, 720), 0)),
      PlatformVideo(<<"q", 2>>, "private", Wire("ms000Z", Later(0, 840), 0))>>
NewerVideos ==
    [i \in 1..MaxResults |-> PlatformVideo(<<"p", i>>, "public", NoPublishAt("none"))]

\* the channel when the run starts: the rows alone, not yet scheduled;
\* under two scheduled videos of others; already scheduled; already
\* scheduled and older than the newest max_results uploads
ChannelInputs ==
    { UnscheduledRows,
      OthersVideos \o UnscheduledRows,
      ScheduledRows,
      NewerVideos \o ScheduledRows }

\* the videos of the video_ids.csv a later batch-upload wrote
SecondRowId(i) == <<"row2", i>>
SecondRows ==
    [i \in 1..MaxBatch |->
        PlatformVideo(SecondRowId(MaxBatch + 1 - i), "private", NoPublishAt("none"))]

\* the channel when two runs start: the videos of both files, alone and
\* under the scheduled videos of others
TwoRunsChannelInputs ==
    { SecondRows \o UnscheduledRows,
      OthersVideos \o SecondRows \o UnscheduledRows }

\* video_data of the second run: the same video_ids.csv, or the one
\* batch-upload wrote after the first run had read it
OtherVideoData ==
    { [i \in 1..MaxBatch |-> RowId(i)], [i \in 1..MaxBatch |-> SecondRowId(i)] }

\* what others do to the channel while the run is on: upload a video
\* as public with a publish time of 06:00 UTC of Day0 + 1, upload a public
\* one without publish time, schedule row 1's video for 08:00 UTC of Day0,
\* move the first of their own to 16:00 UTC, delete it
PlatformChangeInputs ==
    { [op |-> "upload", video_id |-> <<"n", 1>>, privacy_status |-> "public",
       publish_at |-> Later(1, 360)],
      [op |-> "upload", video_id |-> <<"n", 2>>, privacy_status |-> "public",
       publish_at |-> PublishAtNone],
      [op |-> "update", video_id |-> RowId(1), privacy_status |-> "None",
       publish_at |-> Later(0, 480)],
      [op |-> "update", video_id |-> <<"q", 1>>, privacy_status |-> "None",
       publish_at |-> Later(0, 960)],
      [op |-> "delete", video_id |-> <<"q", 1>>, privacy_status |-> "None",
       publish_at |-> PublishAtNone] }

\* what channels().list(mine=True) does: raises, answers without items
\* (the account has no channel), answers with the channel
ChannelsListAnswers == {"raises", "no_items", "items"}

\* the configurations the runs on a channel others change are followed
\* with: the reference schedule and a rejected one, in UTC
BatchZones == {"UTC"}
BatchSchedules == {<<6, 16, 2>>, <<16, 6, 2>>}
\* the clock two runs at the same time are started at: 07:30 UTC of Day0
TwoRunsClocks == {Day0 * 1440 + 450}

\* what the scheduler's other methods are called with between two calls
\* of the allocator: calculate_schedule without start date and from 16:00
\* UTC of Day0, validate_schedule with a list it accepts in UTC and one it
\* rejects
BetweenStartDates == {NoStartDate, AwareStartDate(Later(0, 960), 0)}
BetweenSchedules == {<<Later(0, 360), Later(0, 480)>>, <<Later(0, 360), Later(0, 1020)>>}

\* the zones and schedules of the objects so called: the reference
\* schedule and a rejected one, in UTC and in the default zone
BetweenZones == {"UTC", "America/Chicago"}
BetweenConfigs == {<<6, 16, 2>>, <<16, 6, 2>>}

\* the reservation lists the allocator is called with among those calls
BetweenReservations ==
    { <<>>,
      <<Video(Wire("ms000Z", Later(0, 360), 0)), Video(NoPublishAt("garbage")),
        Video(Wire("ms000Z", Later(0, 480), 0))>> }

\* the schedules calculate_schedule and validate_schedule are followed
\* with: those above and two more whose last slot plus the interval
\* reaches midnight
ScheduleConfigs == ChannelSchedules \cup {<<6, 22, 2>>, <<0, 6, 3>>}

\* video_count, up to MaxCount
CountInputs == (0 - 1)..MaxCount

\* start_date: None; naive midnights (--start-date D) and a naive time the
\* clocks of America/Chicago show twice; aware datetimes before, at the
\* edges of, within and after the window
StartDateInputs ==
    { NoStartDate,
      NaiveStartDate(Day0 * 1440), NaiveStartDate((Day0 + 1) * 1440),
      NaiveStartDate((Day0 + 1) * 1440 + 90),
      AwareStartDate(Later(0, 180), 0), AwareStartDate(Later(0, 360), 0),
      AwareStartDate(Later(0, 570), 0), AwareStartDate(Later(0, 960), 0),
      AwareStartDate(Later(0, 990), 0), AwareStartDate(Later(0, 1050), 0),
      AwareStartDate(Later(0, 1200), 0),
      AwareStartDate(Later(0, 1350), 0), AwareStartDate(Later(0, 1290), 330) }

\* the instants validate_schedule is given lists of
ValidateInstants ==
    {Later(0, 360), Later(0, 480), Later(0, 486), Later(0, 540), Later(0, 1020),
     Later(1, 360)}

RECURSIVE SeqsUpTo(_, _)
SeqsUpTo(S, n) ==
    IF n = 0 THEN {<<>>}
    ELSE LET shorter == SeqsUpTo(S, n - 1)
         IN  shorter \cup {Append(q, x) : q \in shorter, x \in S}

ValidateInputs == SeqsUpTo(ValidateInstants, MaxList)

----------------------------------------------------------------------------
(* The state machine *)

NoCall == [path |-> "none", now |-> 0, slot |-> 0]
NoScheduleCall ==
    [status |-> "none", video_count |-> 0, start_date |-> NoStartDate, now |-> 0,
     schedule |-> <<>>, start |-> [wall |-> 0, off |-> 0]]
NoValidateCall == [outcome |-> "none", video |-> 0, check |-> "none", schedule |-> <<>>]
NoChannel == [timezone |-> "None", start_hour |-> 0, end_hour |-> 0, interval_hours |-> 0]
NoOtherRun ==
    [pc |-> "start", video_data |-> <<>>, video_ids |-> <<>>, existing_videos |-> <<>>,
     api_failed |-> FALSE, publish_times |-> <<>>, committed |-> 0, attempt |-> 0,
     updated |-> {}]

\* the run before it starts, on one of `channels` at one of `clocks`
InitAt(channels, clocks) ==
    /\ pc = "start"
    /\ ctor_args = <<"UTC", 0, 0, 0>>
    /\ scheduler = [status |-> "none"]
    /\ now_utc \in clocks
    /\ clock_steps = 0
    /\ existing_videos = <<>>
    /\ publish_times = <<>>
    /\ last_call = NoCall
    /\ replay = [now |-> 0, done |-> FALSE, slot |-> 0]
    /\ schedule_call = NoScheduleCall
    /\ validate_call = NoValidateCall
    /\ platform \in channels
    /\ platform_before = platform
    /\ platform_changes = 0
    /\ fetches = 0
    /\ snapshot = <<>>
    /\ video_ids = <<>>
    /\ in_flight = {}
    /\ commits = <<>>
    /\ api_failed = FALSE
    /\ channel = NoChannel
    /\ other = NoOtherRun

\* the run before it starts, on one of `channels`
InitOn(channels) == InitAt(channels, ClockInputs)

\* the scheduler's callers that do not touch the platform
Init == InitOn({<<>>})

\* scheduler = VideoScheduler(...): an exception ends the run
Construct(timezone, start_hour, end_hour, interval_hours) ==
    /\ pc = "start"
    /\ ctor_args' = <<timezone, start_hour, end_hour, interval_hours>>
    /\ scheduler' = VideoScheduler_init(timezone, start_hour, end_hour, interval_hours)
    /\ pc' = IF scheduler'.status = "ok" THEN "constructed" ELSE "failed"
    /\ UNCHANGED <<now_utc, clock_steps, existing_videos, publish_times, last_call, replay>>
    /\ UNCHANGED schedule_vars
    /\ UNCHANGED batch_vars
    /\ UNCHANGED run_vars

\* the reservation list the allocator is driven with: in batch-schedule
\* existing_videos = youtube.get_scheduled_videos(), for other callers any
\* list of dicts
SupplyReservations(videos) ==
    /\ pc = "constructed"
    /\ existing_videos' = videos
    /\ pc' = "allocating"
    /\ UNCHANGED <<ctor_args, scheduler, now_utc, clock_steps, publish_times, last_call,
                   replay>>
    /\ UNCHANGED schedule_vars
    /\ UNCHANGED batch_vars
    /\ UNCHANGED run_vars

\* one iteration of `for i, video in enumerate(video_data)`
ScheduleNext ==
    /\ pc = "allocating"
    /\ Len(publish_times) < MaxBatch
    /\ LET r == calculate_next_available_slot(
                    scheduler, all_scheduled(existing_videos, publish_times), now_utc)
       IN  /\ publish_times' = Append(publish_times, r.slot)
           /\ last_call' = [path |-> r.path, now |-> now_utc, slot |-> r.slot]
    /\ scheduler' = scheduler_after_call(scheduler)
    /\ replay' = IF Len(publish_times) = 0 THEN [replay EXCEPT !.now = now_utc]
                  ELSE replay
    /\ UNCHANGED <<pc, ctor_args, now_utc, clock_steps, existing_videos>>
    /\ UNCHANGED schedule_vars
    /\ UNCHANGED batch_vars
    /\ UNCHANGED run_vars

\* calculate_next_available_slot called once more, after the loop, with the
\* list and the clock reading of the loop's first call
CallAgain ==
    /\ pc = "allocating"
    /\ Len(publish_times) = MaxBatch
    /\ ~replay.done
    /\ replay' = [replay EXCEPT
                     !.done = TRUE,
                     !.slot = calculate_next_available_slot(
                                  scheduler, existing_videos, replay.now).slot]
    /\ scheduler' = scheduler_after_call(scheduler)
    /\ UNCHANGED <<pc, ctor_args, now_utc, clock_steps, existing_videos, publish_times,
                   last_call>>
    /\ UNCHANGED schedule_vars
    /\ UNCHANGED batch_vars
    /\ UNCHANGED run_vars

\* calculate_schedule called on the same object between the loop's first
\* call and the call made again
CalculateScheduleBetween(video_count, start_date) ==
    /\ pc = "allocating"
    /\ publish_times # <<>>
    /\ ~replay.done
    /\ schedule_call.status = "none"
    /\ LET r == calculate_schedule(scheduler, video_count, start_date, now_utc)
       IN  schedule_call' = [status |-> r.status, video_count |-> video_count,
                             start_date |-> start_date, now |-> now_utc,
                             schedule |-> r.schedule, start |-> r.start]
    /\ scheduler' = scheduler_after_calculate_schedule(scheduler)
    /\ UNCHANGED <<pc, ctor_args, now_utc, clock_steps, existing_videos, publish_times,
                   last_call, replay, validate_call, platform, platform_before,
                   platform_changes, fetches, snapshot, video_ids, in_flight, commits,
                   api_failed, channel, other>>

\* validate_schedule called on the same object between the loop's first
\* call and the call made again; its ValueError is caught by the caller
ValidateScheduleBetween(schedule) ==
    /\ pc = "allocating"
    /\ publish_times # <<>>
    /\ ~replay.done
    /\ validate_call.outcome = "none"
    /\ LET r == validate_schedule(scheduler, schedule)
       IN  validate_call' = [outcome |-> r.outcome, video |-> r.video,
                             check |-> r.check, schedule |-> schedule]
    /\ scheduler' = scheduler_after_validate_schedule(scheduler)
    /\ UNCHANGED <<pc, ctor_args, now_utc, clock_steps, existing_videos, publish_times,
                   last_call, replay, schedule_call, platform, platform_before,
                   platform_changes, fetches, snapshot, video_ids, in_flight, commits,
                   api_failed, channel, other>>

\* the wall clock advances while the loop runs
Tick(d) ==
    /\ pc = "allocating"
    /\ clock_steps < MaxClockSteps
    /\ now_utc' = now_utc + d
    /\ clock_steps' = clock_steps + 1
    /\ UNCHANGED <<pc, ctor_args, scheduler, existing_videos, publish_times, last_call,
                   replay>>
    /\ UNCHANGED schedule_vars
    /\ UNCHANGED batch_vars
    /\ UNCHANGED run_vars

\* publish_schedule = scheduler.calculate_schedule(video_count, start_date)
CalculateSchedule(video_count, start_date) ==
    /\ pc = "constructed"
    /\ LET r == calculate_schedule(scheduler, video_count, start_date, now_utc)
       IN  /\ schedule_call' = [status |-> r.status, video_count |-> video_count,
                                start_date |-> start_date, now |-> now_utc,
                                schedule |-> r.schedule, start |-> r.start]
           /\ pc' = IF r.status = "ok" THEN "scheduled" ELSE "failed"
    /\ UNCHANGED <<ctor_args, scheduler, now_utc, clock_steps, existing_videos,
                   publish_times, last_call, replay, validate_call>>
    /\ UNCHANGED batch_vars
    /\ UNCHANGED run_vars

\* scheduler.validate_schedule(publish_schedule) inside the try of
\* schedule_batch_upload: a ValueError ends the run with []
ValidatePublishSchedule ==
    /\ pc = "scheduled"
    /\ LET r == validate_schedule(scheduler, schedule_call.schedule)
       IN  /\ validate_call' = [outcome |-> r.outcome, video |-> r.video,
                                check |-> r.check, schedule |-> schedule_call.schedule]
           /\ pc' = IF r.outcome = "True" THEN "validated" ELSE "rejected"
    /\ UNCHANGED <<ctor_args, scheduler, now_utc, clock_steps, existing_videos,
                   publish_times, last_call, replay, schedule_call>>
    /\ UNCHANGED batch_vars
    /\ UNCHANGED run_vars

\* validate_schedule called with a list of the caller's own
ValidateSchedule(schedule) ==
    /\ pc = "constructed"
    /\ LET r == validate_schedule(scheduler, schedule)
       IN  /\ validate_call' = [outcome |-> r.outcome, video |-> r.video,
                                check |-> r.check, schedule |-> schedule]
    /\ pc' = "returned"
    /\ UNCHANGED <<ctor_args, scheduler, now_utc, clock_steps, existing_videos,
                   publish_times, last_call, replay, schedule_call>>
    /\ UNCHANGED batch_vars
    /\ UNCHANGED run_vars

\* somebody else (another tool, the channel's owner) changes the channel
\* while the run is on, between any two of its requests: uploads a video,
\* reschedules one (videos().update) or deletes one (delete_video)
PlatformChanges(change) ==
    /\ pc \in {"constructed", "listing_uploads", "listing_videos", "allocating",
               "committing"}
    /\ platform_changes < MaxPlatformChanges
    /\ \/ /\ change.op = "upload"
          /\ ~HasVideo(platform, change.video_id)
          /\ LET status == upload_video(change.privacy_status, change.publish_at)
             IN  platform' = <<PlatformVideo(change.video_id, status.privacyStatus,
                                             status.publishAt)>> \o platform
       \/ /\ change.op = "update"
          /\ HasVideo(platform, change.video_id)
          /\ platform' = update_video_schedule(platform, change.video_id,
                                               change.publish_at)
       \/ /\ change.op = "delete"
          /\ HasVideo(platform, change.video_id)
          /\ platform' = delete_video(platform, change.video_id)
    /\ platform_changes' = platform_changes + 1
    /\ UNCHANGED <<pc, ctor_args, scheduler, now_utc, clock_steps, existing_videos,
                   publish_times, last_call, replay, schedule_call, validate_call,
                   platform_before, fetches, snapshot, video_ids, in_flight, commits,
                   api_failed, channel, other>>

\* existing_videos = youtube.get_scheduled_videos(): its first request,
\* channels().list(part="contentDetails", mine=True); raising, the call
\* returns [] from the except clause; answered without items, it returns []
ChannelsList(answer) ==
    /\ pc = "constructed"
    /\ fetches' = fetches + 1
    /\ IF answer \in {"raises", "no_items"}
       THEN /\ existing_videos' = get_scheduled_videos_return(answer = "raises", <<>>)
            /\ snapshot' = IF fetches = 0 THEN existing_videos' ELSE snapshot
            /\ api_failed' = (answer = "raises")
            /\ pc' = "allocating"
       ELSE /\ pc' = "listing_uploads"
            /\ UNCHANGED <<existing_videos, snapshot, api_failed>>
    /\ UNCHANGED <<ctor_args, scheduler, now_utc, clock_steps, publish_times,
                   last_call, replay, schedule_call, validate_call, platform,
                   platform_before, platform_changes, video_ids, in_flight, commits,
                   channel, other>>

\* its second request, playlistItems().list of the uploads playlist;
\* without items, or without ids, the call returns []
PlaylistItemsList(raises) ==
    /\ pc = "listing_uploads"
    /\ IF raises \/ playlist_items_list(platform) = <<>>
       THEN /\ existing_videos' = get_scheduled_videos_return(raises, <<>>)
            /\ snapshot' = IF fetches = 1 THEN existing_videos' ELSE snapshot
            /\ api_failed' = raises
            /\ pc' = "allocating"
            /\ UNCHANGED video_ids
       ELSE /\ video_ids' = playlist_items_list(platform)
            /\ pc' = "listing_videos"
            /\ UNCHANGED <<existing_videos, snapshot, api_failed>>
    /\ UNCHANGED <<ctor_args, scheduler, now_utc, clock_steps, publish_times,
                   last_call, replay, schedule_call, validate_call, platform,
                   platform_before, platform_changes, fetches, in_flight, commits,
                   channel, other>>

\* its third request, videos().list of those ids, and the filter loop
VideosList(raises) ==
    /\ pc = "listing_videos"
    /\ existing_videos' =
           get_scheduled_videos_return(
               raises, scheduled_videos(videos_list(platform, video_ids)))
    /\ snapshot' = IF fetches = 1 THEN existing_videos' ELSE snapshot
    /\ api_failed' = raises
    /\ pc' = "allocating"
    /\ UNCHANGED <<ctor_args, scheduler, now_utc, clock_steps, publish_times,
                   last_call, replay, schedule_call, validate_call, platform,
                   platform_before, platform_changes, fetches, video_ids, in_flight,
                   commits, channel, other>>

\* `if dry_run: ... return` after the table is printed
DryRunReturn ==
    /\ pc = "allocating"
    /\ Len(publish_times) = MaxBatch
    /\ pc' = "done_dry_run"
    /\ UNCHANGED <<ctor_args, scheduler, now_utc, clock_steps, existing_videos,
                   publish_times, last_call, replay, schedule_call, validate_call,
                   platform, platform_before, platform_changes, fetches, snapshot,
                   video_ids, in_flight, commits, api_failed, channel, other>>

\* one iteration of `for video, publish_time in zip(video_data, publish_times)`
\* up to the call youtube.update_video_schedule(video_id=video["video_id"],
\* ..., publish_at=publish_time); the first iteration starts once the
\* allocation loop is over
UpdateVideoScheduleCall ==
    /\ \/ pc = "allocating" /\ Len(publish_times) = MaxBatch
       \/ pc = "committing"
    /\ in_flight = {}
    /\ Len(commits) < Len(publish_times)
    /\ in_flight' = {[row |-> Len(commits) + 1,
                      publish_at |-> publish_times[Len(commits) + 1],
                      attempt |-> 1]}
    /\ pc' = "committing"
    /\ UNCHANGED <<ctor_args, scheduler, now_utc, clock_steps, existing_videos,
                   publish_times, last_call, replay, schedule_call, validate_call,
                   platform, platform_before, platform_changes, fetches, snapshot,
                   video_ids, commits, api_failed, channel, other>>

\* the same iteration when loading the row's metadata raises inside the
\* try: the except clause counts the row as failed and no call is made
MetadataLoadRaises ==
    /\ \/ pc = "allocating" /\ Len(publish_times) = MaxBatch
       \/ pc = "committing"
    /\ in_flight = {}
    /\ Len(commits) < Len(publish_times)
    /\ commits' = Append(commits, [row |-> Len(commits) + 1,
                                   publish_at |-> publish_times[Len(commits) + 1],
                                   updated |-> FALSE, called |-> FALSE])
    /\ pc' = IF Len(commits) + 1 = Len(publish_times) THEN "done" ELSE "committing"
    /\ UNCHANGED <<ctor_args, scheduler, now_utc, clock_steps, existing_videos,
                   publish_times, last_call, replay, schedule_call, validate_call,
                   platform, platform_before, platform_changes, fetches, snapshot,
                   video_ids, in_flight, api_failed, channel, other>>

\* an attempt of the call raises and @retry makes the next one
CommitAttemptRetried ==
    /\ pc \in {"committing", "uploading"}
    /\ \E call \in in_flight :
          /\ ~retry_stops(call.attempt)
          /\ in_flight' = (in_flight \ {call})
                          \cup {[call EXCEPT !.attempt = call.attempt + 1]}
    /\ UNCHANGED <<pc, ctor_args, scheduler, now_utc, clock_steps, existing_videos,
                   publish_times, last_call, replay, schedule_call, validate_call,
                   platform, platform_before, platform_changes, fetches, snapshot,
                   video_ids, commits, api_failed, channel, other>>

\* the call returns, the platform having changed the row's video
\* (updated_count += 1), or, its last attempt raising, raises (caught:
\* failed_count += 1); the loop goes on to the next row, the run ends after
\* the last.  The request for a video the channel no longer has raises.
UpdateVideoScheduleReturn(updated) ==
    /\ pc = "committing"
    /\ \E call \in in_flight :
          /\ updated => HasVideo(platform, RowId(call.row))
          /\ updated \/ retry_stops(call.attempt)
          /\ commits' = Append(commits, [row |-> call.row, publish_at |-> call.publish_at,
                                         updated |-> updated, called |-> TRUE])
          /\ platform' = IF updated
                          THEN update_video_schedule(platform, RowId(call.row),
                                                     call.publish_at)
                          ELSE platform
          /\ in_flight' = in_flight \ {call}
          /\ pc' = IF call.row = Len(publish_times) THEN "done" ELSE "committing"
    /\ UNCHANGED <<ctor_args, scheduler, now_utc, clock_steps, existing_videos,
                   publish_times, last_call, replay, schedule_call, validate_call,
                   platform_before, platform_changes, fetches, snapshot, video_ids,
                   api_failed, channel, other>>

\* a dry-run return placed after the upload loop
PreviewReturn_after_uploads ==
    /\ pc = "done"
    /\ schedule_call.status = "ok"
    /\ pc' = "done_dry_run"
    /\ UNCHANGED <<ctor_args, scheduler, now_utc, clock_steps, existing_videos,
                   publish_times, last_call, replay, schedule_call, validate_call,
                   platform, platform_before, platform_changes, fetches, snapshot,
                   video_ids, in_flight, commits, api_failed, channel, other>>

\* schedule-uploads: `if dry_run: ... return [...]` after the validation
PreviewReturn ==
    /\ pc = "validated"
    /\ pc' = "done_dry_run"
    /\ UNCHANGED <<ctor_args, scheduler, now_utc, clock_steps, existing_videos,
                   publish_times, last_call, replay, schedule_call, validate_call,
                   platform, platform_before, platform_changes, fetches, snapshot,
                   video_ids, in_flight, commits, api_failed, channel, other>>

\* schedule-uploads: one iteration of `for idx, (video_file, publish_time) in
\* enumerate(zip(video_files, publish_schedule), 1)` up to the call
\* self.youtube.upload_video(..., privacy_status="private",
\* publish_at=publish_time)
UploadVideoCall ==
    /\ pc \in {"validated", "uploading"}
    /\ in_flight = {}
    /\ Len(commits) < Len(schedule_call.schedule)
    /\ in_flight' = {[row |-> Len(commits) + 1,
                      publish_at |-> schedule_call.schedule[Len(commits) + 1],
                      attempt |-> 1]}
    /\ pc' = "uploading"
    /\ UNCHANGED <<ctor_args, scheduler, now_utc, clock_steps, existing_videos,
                   publish_times, last_call, replay, schedule_call, validate_call,
                   platform, platform_before, platform_changes, fetches, snapshot,
                   video_ids, commits, api_failed, channel, other>>

\* the same iteration when loading the file's metadata raises inside the
\* try: the except clause records "ERROR: ..." for the file and no upload
\* is requested
UploadMetadataLoadRaises ==
    /\ pc \in {"validated", "uploading"}
    /\ in_flight = {}
    /\ Len(commits) < Len(schedule_call.schedule)
    /\ commits' = Append(commits, [row |-> Len(commits) + 1,
                                   publish_at |-> schedule_call.schedule[Len(commits) + 1],
                                   updated |-> FALSE, called |-> FALSE])
    /\ pc' = IF Len(commits) + 1 = Len(schedule_call.schedule) THEN "done"
             ELSE "uploading"
    /\ UNCHANGED <<ctor_args, scheduler, now_utc, clock_steps, existing_videos,
                   publish_times, last_call, replay, schedule_call, validate_call,
                   platform, platform_before, platform_changes, fetches, snapshot,
                   video_ids, in_flight, api_failed, channel, other>>

\* the upload returns, the channel having a new video, or, its last
\* attempt raising, raises (caught: the file's result is "ERROR: ..."); the
\* loop goes on to the next file
UploadVideoReturn(uploaded) ==
    /\ pc = "uploading"
    /\ \E call \in in_flight :
          /\ uploaded \/ retry_stops(call.attempt)
          /\ commits' = Append(commits, [row |-> call.row, publish_at |-> call.publish_at,
                                         updated |-> uploaded, called |-> TRUE])
          /\ platform' =
                 IF uploaded
                 THEN LET status == upload_video("private", call.publish_at)
                      IN  <<PlatformVideo(UploadId(call.row), status.privacyStatus,
                                          status.publishAt)>> \o platform
                 ELSE platform
          /\ in_flight' = in_flight \ {call}
          /\ pc' = IF call.row = Len(schedule_call.schedule) THEN "done" ELSE "uploading"
    /\ UNCHANGED <<ctor_args, scheduler, now_utc, clock_steps, existing_videos,
                   publish_times, last_call, replay, schedule_call, validate_call,
                   platform_before, platform_changes, fetches, snapshot, video_ids,
                   api_failed, channel, other>>

\* batch-schedule: channel_config = ChannelConfig(channel_name), then
\* scheduler = VideoScheduler(start_hour=..., end_hour=..., interval_hours=...)
\* from its youtube.schedule section, timezone left to its default None
ConstructForChannel(channel_tz, start_hour, end_hour, interval_hours, settings_tz) ==
    /\ pc = "start"
    /\ channel' = [timezone |-> channel_tz, start_hour |-> start_hour,
                   end_hour |-> end_hour, interval_hours |-> interval_hours]
    /\ LET timezone == timezone_or_settings("None", settings_tz)
       IN  /\ ctor_args' = <<timezone, start_hour, end_hour, interval_hours>>
           /\ scheduler' = VideoScheduler_init(timezone, start_hour, end_hour,
                                               interval_hours)
    /\ pc' = IF scheduler'.status = "ok" THEN "constructed" ELSE "failed"
    /\ UNCHANGED <<now_utc, clock_steps, existing_videos, publish_times, last_call,
                   replay, schedule_call, validate_call, platform, platform_before,
                   platform_changes, fetches, snapshot, video_ids, in_flight, commits,
                   api_failed, other>>

\* the second run, started for the same channel (its scheduler is built
\* from the same configuration) on a video_ids.csv whose videos the channel
\* has: the first request of its get_scheduled_videos
OtherChannelsList(video_data, answer) ==
    /\ scheduler.status = "ok"
    /\ other.pc = "start"
    /\ \A i \in 1..Len(video_data) : HasVideo(platform, video_data[i])
    /\ other' = IF answer \in {"raises", "no_items"}
                THEN [other EXCEPT
                         !.pc = "allocating",
                         !.video_data = video_data,
                         !.existing_videos =
                             get_scheduled_videos_return(answer = "raises", <<>>),
                         !.api_failed = (answer = "raises")]
                ELSE [other EXCEPT !.pc = "listing_uploads", !.video_data = video_data]
    /\ UNCHANGED <<pc, ctor_args, scheduler, now_utc, clock_steps, existing_videos,
                   publish_times, last_call, replay, schedule_call, validate_call,
                   platform, platform_before, platform_changes, fetches, snapshot,
                   video_ids, in_flight, commits, api_failed, channel>>

\* the second run: the second request of its get_scheduled_videos
OtherPlaylistItemsList(raises) ==
    /\ other.pc = "listing_uploads"
    /\ other' = IF raises \/ playlist_items_list(platform) = <<>>
                THEN [other EXCEPT
                         !.pc = "allocating",
                         !.existing_videos = get_scheduled_videos_return(raises, <<>>),
                         !.api_failed = raises]
                ELSE [other EXCEPT !.pc = "listing_videos",
                                   !.video_ids = playlist_items_list(platform)]
    /\ UNCHANGED <<pc, ctor_args, scheduler, now_utc, clock_steps, existing_videos,
                   publish_times, last_call, replay, schedule_call, validate_call,
                   platform, platform_before, platform_changes, fetches, snapshot,
                   video_ids, in_flight, commits, api_failed, channel>>

\* the second run: the third request of its get_scheduled_videos
OtherVideosList(raises) ==
    /\ other.pc = "listing_videos"
    /\ other' = [other EXCEPT
                    !.pc = "allocating",
                    !.existing_videos =
                        get_scheduled_videos_return(
                            raises,
                            scheduled_videos(videos_list(platform, other.video_ids))),
                    !.api_failed = raises]
    /\ UNCHANGED <<pc, ctor_args, scheduler, now_utc, clock_steps, existing_videos,
                   publish_times, last_call, replay, schedule_call, validate_call,
                   platform, platform_before, platform_changes, fetches, snapshot,
                   video_ids, in_flight, commits, api_failed, channel>>

\* the second run: one iteration of its allocation loop
OtherScheduleNext ==
    /\ other.pc = "allocating"
    /\ Len(other.publish_times) < MaxBatch
    /\ LET r == calculate_next_available_slot(
                    scheduler, all_scheduled(other.existing_videos, other.publish_times),
                    now_utc)
       IN  other' = [other EXCEPT !.publish_times = Append(other.publish_times, r.slot)]
    /\ UNCHANGED <<pc, ctor_args, scheduler, now_utc, clock_steps, existing_videos,
                   publish_times, last_call, replay, schedule_call, validate_call,
                   platform, platform_before, platform_changes, fetches, snapshot,
                   video_ids, in_flight, commits, api_failed, channel>>

\* the second run: one iteration of its commit loop up to the call of
\* update_video_schedule
OtherUpdateVideoScheduleCall ==
    /\ other.pc \in {"allocating", "committing"}
    /\ Len(other.publish_times) = MaxBatch
    /\ other.committed < MaxBatch
    /\ other.attempt = 0
    /\ other' = [other EXCEPT !.attempt = 1, !.pc = "committing"]
    /\ UNCHANGED <<pc, ctor_args, scheduler, now_utc, clock_steps, existing_videos,
                   publish_times, last_call, replay, schedule_call, validate_call,
                   platform, platform_before, platform_changes, fetches, snapshot,
                   video_ids, in_flight, commits, api_failed, channel>>

\* the second run: the same iteration when loading the row's metadata
\* raises: the row is counted as failed and no call is made
OtherMetadataLoadRaises ==
    /\ other.pc \in {"allocating", "committing"}
    /\ Len(other.publish_times) = MaxBatch
    /\ other.committed < MaxBatch
    /\ other.attempt = 0
    /\ other' = [other EXCEPT !.committed = other.committed + 1,
                              !.pc = IF other.committed + 1 = MaxBatch THEN "done"
                                     ELSE "committing"]
    /\ UNCHANGED <<pc, ctor_args, scheduler, now_utc, clock_steps, existing_videos,
                   publish_times, last_call, replay, schedule_call, validate_call,
                   platform, platform_before, platform_changes, fetches, snapshot,
                   video_ids, in_flight, commits, api_failed, channel>>

\* the second run: an attempt of its call raises and @retry makes the next
OtherCommitAttemptRetried ==
    /\ other.pc = "committing"
    /\ other.attempt >= 1
    /\ ~retry_stops(other.attempt)
    /\ other' = [other EXCEPT !.attempt = other.attempt + 1]
    /\ UNCHANGED <<pc, ctor_args, scheduler, now_utc, clock_steps, existing_videos,
                   publish_times, last_call, replay, schedule_call, validate_call,
                   platform, platform_before, platform_changes, fetches, snapshot,
                   video_ids, in_flight, commits, api_failed, channel>>

\* the second run: its call returns, the platform having changed the
\* row's video, or raises after its last attempt; the loop goes on
OtherUpdateVideoScheduleReturn(updated) ==
    /\ other.pc = "committing"
    /\ other.attempt >= 1
    /\ updated => HasVideo(platform, other.video_data[other.committed + 1])
    /\ updated \/ retry_stops(other.attempt)
    /\ platform' = IF updated
                    THEN update_video_schedule(platform,
                                               other.video_data[other.committed + 1],
                                               other.publish_times[other.committed + 1])
                    ELSE platform
    /\ other' = [other EXCEPT
                    !.committed = other.committed + 1,
                    !.attempt = 0,
                    !.updated = IF updated THEN other.updated \cup {other.committed + 1}
                                ELSE other.updated,
                    !.pc = IF other.committed + 1 = MaxBatch THEN "done"
                           ELSE "committing"]
    /\ UNCHANGED <<pc, ctor_args, scheduler, now_utc, clock_steps, existing_videos,
                   publish_times, last_call, replay, schedule_call, validate_call,
                   platform_before, platform_changes, fetches, snapshot, video_ids,
                   in_flight, commits, api_failed, channel>>

Next ==
    \/ \E tz \in ZoneNames, c \in ChannelSchedules : Construct(tz, c[1], c[2], c[3])
    \/ \E videos \in ReservationInputs : SupplyReservations(videos)
    \/ ScheduleNext
    \/ CallAgain
    \/ \E d \in ClockSteps : Tick(d)

Spec == Init /\ [][Next]_vars

\* one scheduler object whose three methods are called in any order: the
\* allocation loop, calculate_schedule and validate_schedule between its
\* calls, and the loop's first call made again at the end
NextCalls ==
    \/ \E tz \in BetweenZones, c \in BetweenConfigs : Construct(tz, c[1], c[2], c[3])
    \/ \E videos \in BetweenReservations : SupplyReservations(videos)
    \/ ScheduleNext
    \/ \E d \in BetweenStartDates : CalculateScheduleBetween(MaxBatch, d)
    \/ \E schedule \in BetweenSchedules : ValidateScheduleBetween(schedule)
    \/ CallAgain
    \/ \E d \in ClockSteps : Tick(d)

SpecCalls == Init /\ [][NextCalls]_vars

\* a whole batch-schedule run on a channel others change meanwhile:
\* construction, the three requests of the fetch, the allocation loop, the
\* dry-run return or the commit loop
NextBatch ==
    \/ \E tz \in BatchZones, c \in BatchSchedules : Construct(tz, c[1], c[2], c[3])
    \/ \E change \in PlatformChangeInputs : PlatformChanges(change)
    \/ \E answer \in ChannelsListAnswers : ChannelsList(answer)
    \/ \E raises \in BOOLEAN : PlaylistItemsList(raises)
    \/ \E raises \in BOOLEAN : VideosList(raises)
    \/ ScheduleNext
    \/ DryRunReturn
    \/ UpdateVideoScheduleCall
    \/ MetadataLoadRaises
    \/ CommitAttemptRetried
    \/ \E updated \in BOOLEAN : UpdateVideoScheduleReturn(updated)

SpecBatch == InitOn(ChannelInputs) /\ [][NextBatch]_vars

\* a batch-schedule run on a channel nobody else changes
NextCommit ==
    \/ \E tz \in ZoneNames, c \in ChannelSchedules : Construct(tz, c[1], c[2], c[3])
    \/ \E answer \in ChannelsListAnswers : ChannelsList(answer)
    \/ \E raises \in BOOLEAN : PlaylistItemsList(raises)
    \/ \E raises \in BOOLEAN : VideosList(raises)
    \/ ScheduleNext
    \/ DryRunReturn
    \/ UpdateVideoScheduleCall
    \/ MetadataLoadRaises
    \/ CommitAttemptRetried
    \/ \E updated \in BOOLEAN : UpdateVideoScheduleReturn(updated)

SpecCommit == InitOn(ChannelInputs) /\ [][NextCommit]_vars

\* the fresh-batch calculator and the validator
NextSchedule ==
    \/ \E tz \in ZoneNames, c \in ScheduleConfigs : Construct(tz, c[1], c[2], c[3])
    \/ \E n \in CountInputs, d \in StartDateInputs : CalculateSchedule(n, d)
    \/ ValidatePublishSchedule
    \/ \E schedule \in ValidateInputs : ValidateSchedule(schedule)

SpecSchedule == Init /\ [][NextSchedule]_vars

\* a whole schedule-uploads run: construction, calculate_schedule for the
\* files found, the validation, the dry-run return or the upload loop
NextUploads ==
    \/ \E tz \in ZoneNames, c \in ChannelSchedules : Construct(tz, c[1], c[2], c[3])
    \/ \E n \in 1..MaxBatch, d \in StartDateInputs : CalculateSchedule(n, d)
    \/ ValidatePublishSchedule
    \/ PreviewReturn
    \/ UploadVideoCall
    \/ UploadMetadataLoadRaises
    \/ CommitAttemptRetried
    \/ \E uploaded \in BOOLEAN : UploadVideoReturn(uploaded)

\* the runs of the two commands that commit publish times
NextRuns == NextCommit \/ NextUploads

SpecRuns == InitOn(ChannelInputs) /\ [][NextRuns]_vars

\* batch-schedule for a channel whose timezone may differ from the global
\* one, up to the end of its allocation loop
NextChannel ==
    \/ \E channel_tz \in ZoneNames, c \in ChannelSchedules, settings_tz \in ZoneNames :
           ConstructForChannel(channel_tz, c[1], c[2], c[3], settings_tz)
    \/ \E answer \in ChannelsListAnswers : ChannelsList(answer)
    \/ \E raises \in BOOLEAN : PlaylistItemsList(raises)
    \/ \E raises \in BOOLEAN : VideosList(raises)
    \/ ScheduleNext
    \/ DryRunReturn

SpecChannel == InitOn(ChannelInputs) /\ [][NextChannel]_vars

\* two batch-schedule runs for the same channel at the same time, on a
\* platform that answers every request of get_scheduled_videos
NextTwoRuns ==
    \/ \E tz \in BatchZones, c \in BatchSchedules : Construct(tz, c[1], c[2], c[3])
    \/ \E answer \in {"items"} : ChannelsList(answer)
    \/ \E raises \in {FALSE} : PlaylistItemsList(raises)
    \/ \E raises \in {FALSE} : VideosList(raises)
    \/ ScheduleNext
    \/ UpdateVideoScheduleCall
    \/ MetadataLoadRaises
    \/ CommitAttemptRetried
    \/ \E updated \in BOOLEAN : UpdateVideoScheduleReturn(updated)
    \/ \E video_data \in OtherVideoData, answer \in {"items"} :
           OtherChannelsList(video_data, answer)
    \/ \E raises \in {FALSE} : OtherPlaylistItemsList(raises)
    \/ \E raises \in {FALSE} : OtherVideosList(raises)
    \/ OtherScheduleNext
    \/ OtherUpdateVideoScheduleCall
    \/ OtherMetadataLoadRaises
    \/ OtherCommitAttemptRetried
    \/ \E updated \in BOOLEAN : OtherUpdateVideoScheduleReturn(updated)

SpecTwoRuns == InitAt(TwoRunsChannelInputs, TwoRunsClocks) /\ [][NextTwoRuns]_vars

\* construction alone, over every combination of the constructor inputs
NextConfig ==
    \E tz \in TimezoneInputs, s \in StartHourInputs, e \in EndHourInputs,
       i \in IntervalInputs : Construct(tz, s, e, i)

SpecConfig == Init /\ [][NextConfig]_vars

----------------------------------------------------------------------------
(* Vocabulary of the properties.  Local time here is the real local time  *)
(* of the scheduler's zone at the instant in question.                     *)

\* the wall-clock reading, in zone z, of the instant u
LocalTime(z, u) == u + ZoneOffset(z, u)

\* the instant at which the clocks of zone z read w (w is not in a gap)
InstantOfLocal(z, w) ==
    CHOOSE u \in {w - z.base, w - z.after} : LocalTime(z, u) = w

\* the instant a publishAt value denotes (for values that denote one)
InstantOf(s) == (s.date * 1440 + s.hour * 60 + s.minute) - s.off
Parsable(s) == s.fmt \in {"ms000Z", "Z", "offset"}

\* a reservation normalized: the top of its local hour, as an instant
HourTruncated(z, u) == u - (LocalTime(z, u) % 60)

\* the occupied set of a reservation list
Occupied(z, videos) ==
    {HourTruncated(z, InstantOf(videos[i].publishAt)) :
        i \in {j \in 1..Len(videos) : Parsable(videos[j].publishAt)}}

\* earliestValid for the clock reading `now`
EarliestValid(z, now) == HourTruncated(z, now) + BufferMinutes

\* the list the latest allocator call of the loop was given
Called == last_call.path # "none"
LastInput ==
    all_scheduled(existing_videos, SubSeq(publish_times, 1, Len(publish_times) - 1))

----------------------------------------------------------------------------
(* Properties *)

C2_NeverOccupied ==
    Called => last_call.slot \notin Occupied(scheduler.timezone, LastInput)

\* a scan result and a fallback result, each next to an occupied hour
C2_Witness ==
    /\ Called /\ last_call.path = "scan"
    /\ last_call.slot - 120 \in Occupied(scheduler.timezone, LastInput)
C2_FallbackReached ==
    /\ Called /\ last_call.path = "fallback_last"
    /\ Len(publish_times) > 1

\* C3: the instant returned is never earlier than earliest_valid, the top
\* of the current local hour plus 5 minutes, on either path.
C3_NotBeforeEarliestValid ==
    Called => last_call.slot >= EarliestValid(scheduler.timezone, last_call.now)

\* a call made later than the day's first slot, which is free
C3_Witness ==
    /\ Called
    /\ LET z == scheduler.timezone
           today == DateOf(LocalTime(z, last_call.now)) * 1440
           first == InstantOfLocal(z, today + scheduler.start_hour * 60)
       IN  /\ first < EarliestValid(z, last_call.now)
           /\ first \notin Occupied(z, LastInput)
           /\ DateOf(LocalTime(z, last_call.slot)) * 1440 = today

\* the slot grid of the configuration on the HorizonDays local days from
\* the local date `first` on: the instants whose local time is on a day of
\* the range at hour start_hour + k * interval_hours, 0 <= k < slots_per_day
GridSlots(self, first) ==
    {InstantOfLocal(self.timezone,
         (first + d) * 1440 + (self.start_hour + k * self.interval_hours) * 60) :
        d \in 0..(HorizonDays - 1), k \in 0..(self.slots_per_day - 1)}

\* the grid slots a call may return: not before earliest_valid, not occupied
FreeSlots(self, videos, now) ==
    LET z == self.timezone
    IN  {g \in GridSlots(self, DateOf(LocalTime(z, EarliestValid(z, now)))) :
            g >= EarliestValid(z, now) /\ g \notin Occupied(z, videos)}

\* whether the zone keeps one offset throughout
FixedOffset(z) == z.base = z.after

\* C4: whenever a grid slot of the 30 days from the day of earliest_valid
\* is free (>= earliest_valid, not occupied), the call returns the earliest
\* free one.
C4_EarliestFreeSlot ==
    Called =>
        LET free == FreeSlots(scheduler, LastInput, last_call.now)
        IN  free # {} =>
                /\ last_call.slot \in free
                /\ \A g \in free : last_call.slot <= g

\* C4 in the zones whose offset never changes
C4_EarliestFreeSlot_FixedOffset ==
    (Called /\ FixedOffset(scheduler.timezone)) => C4_EarliestFreeSlot

\* C5: every instant returned, viewed in the scheduler's zone, has
\* start_hour <= hour <= end_hour.
C5_HourWithinWindow ==
    Called =>
        /\ scheduler.start_hour <= HourOf(LocalTime(scheduler.timezone, last_call.slot))
        /\ HourOf(LocalTime(scheduler.timezone, last_call.slot)) <= scheduler.end_hour

\* C5 in the zones whose offset never changes
C5_HourWithinWindow_FixedOffset ==
    (Called /\ FixedOffset(scheduler.timezone)) => C5_HourWithinWindow

\* the fallback result the contract names for a list and a clock reading
SetMax(S) == CHOOSE x \in S : \A y \in S : y <= x
ClampedIntoWindow(self, u) ==
    LET z == self.timezone
        date == DateOf(LocalTime(z, u))
        hour == HourOf(LocalTime(z, u))
    IN  IF hour > self.end_hour
        THEN InstantOfLocal(z, (date + 1) * 1440 + self.start_hour * 60)
        ELSE IF hour < self.start_hour
        THEN InstantOfLocal(z, date * 1440 + self.start_hour * 60)
        ELSE u
FallbackSlot(self, videos, now) ==
    LET z == self.timezone
    IN  IF Occupied(z, videos) # {}
        THEN ClampedIntoWindow(self,
                 SetMax(Occupied(z, videos)) + self.interval_hours * 60)
        ELSE InstantOfLocal(z,
                 (DateOf(LocalTime(z, now)) + 1) * 1440 + self.start_hour * 60)

C7_FallbackWhenExhausted ==
    Called =>
        (FreeSlots(scheduler, LastInput, last_call.now) = {} =>
            last_call.slot = FallbackSlot(scheduler, LastInput, last_call.now))

\* C7 in the zones whose offset never changes
C7_FallbackWhenExhausted_FixedOffset ==
    (Called /\ FixedOffset(scheduler.timezone)) => C7_FallbackWhenExhausted

\* the three outcomes of the fallback, each reached
C7_ReachedRolledToNextDay ==
    /\ Called /\ last_call.path = "fallback_last"
    /\ HourOf(LocalTime(scheduler.timezone,
           SetMax(Occupied(scheduler.timezone, LastInput))
               + scheduler.interval_hours * 60)) > scheduler.end_hour
C7_ReachedRaisedToStart ==
    /\ Called /\ last_call.path = "fallback_last"
    /\ HourOf(LocalTime(scheduler.timezone,
           SetMax(Occupied(scheduler.timezone, LastInput))
               + scheduler.interval_hours * 60)) < scheduler.start_hour
C7_ReachedUnadjusted ==
    /\ Called /\ last_call.path = "fallback_last"
    /\ last_call.slot = SetMax(Occupied(scheduler.timezone, LastInput))
                            + scheduler.interval_hours * 60

\* C8: a reservation whose publishAt is missing, empty or unparsable is
\* treated as not existing: the call returns what it returns for the list
\* without such entries.
WithoutUnparsable(videos) ==
    SelectSeq(videos, LAMBDA v : Parsable(v.publishAt))
C8_UnparsableIgnored ==
    Called =>
        last_call.slot =
            calculate_next_available_slot(
                scheduler, WithoutUnparsable(LastInput), last_call.now).slot

\* a call given a list with an unparsable entry between two reservations,
\* the later of which is the slot the call would otherwise return
C8_Witness ==
    /\ Called
    /\ \E i, j \in 1..Len(existing_videos) :
          /\ i < j
          /\ ~Parsable(existing_videos[i].publishAt)
          /\ Parsable(existing_videos[j].publishAt)
          /\ calculate_next_available_slot(
                 scheduler, SubSeq(LastInput, 1, i), last_call.now).slot
               = InstantOf(existing_videos[j].publishAt)

\* a valid configuration: a known zone, 0 <= start_hour < end_hour <= 23,
\* interval_hours >= 1
ValidArguments(a) ==
    /\ a[1] \in ZoneNames
    /\ 0 <= a[2] /\ a[2] < a[3] /\ a[3] <= 23
    /\ a[4] >= 1

\* C9: constructing a VideoScheduler fails whenever start_hour >= end_hour
\* or interval_hours < 1, and succeeds for every valid configuration.
C9_ConstructionValidates ==
    pc # "start" =>
        /\ (ctor_args[2] >= ctor_args[3] \/ ctor_args[4] < 1) => scheduler.status # "ok"
        /\ ValidArguments(ctor_args) => scheduler.status = "ok"

\* C9 for the arguments the constructor does check: start_hour >= end_hour
\* and interval_hours = 0 fail, valid configurations succeed
C9_ConstructionValidates_NonNegativeInterval ==
    (pc # "start" /\ ctor_args[4] >= 0) => C9_ConstructionValidates

\* the local hours (the hour fields) of a sequence of datetimes
HoursOf(slots) == [i \in 1..Len(slots) |-> HourOf(slots[i].wall)]

\* C10: for a valid configuration slots_per_day >= 1, and on each of the
\* days scanned the enumeration yields exactly slots_per_day datetimes of
\* that day, at the hours start_hour + k * interval_hours, 0 <= k <
\* slots_per_day.
C10_SlotsPerDay ==
    (scheduler.status = "ok" /\ ValidArguments(ctor_args)) =>
        /\ scheduler.slots_per_day >= 1
        /\ \A day_offset \in 0..(HorizonDays - 1) :
              LET check_date ==
                      Plus(ReplaceHourMinute0(FromUtc(scheduler.timezone, now_utc),
                                              scheduler.start_hour),
                           day_offset * 1440)
                  slots == day_slots(scheduler, check_date,
                               ReplaceHour(check_date, scheduler.start_hour), <<>>)
              IN  /\ HoursOf(slots) =
                         [k \in 1..scheduler.slots_per_day |->
                             scheduler.start_hour + (k - 1) * scheduler.interval_hours]
                  /\ \A i \in 1..Len(slots) :
                         /\ DateOf(slots[i].wall) = DateOf(check_date.wall)
                         /\ MinuteOf(slots[i].wall) = 0

\* a configuration whose interval does not divide the window and whose
\* step after the last slot passes midnight
C10_Witness ==
    /\ scheduler.status = "ok" /\ ValidArguments(ctor_args)
    /\ scheduler.slots_per_day >= 2
    /\ (scheduler.end_hour - scheduler.start_hour) % scheduler.interval_hours # 0
    /\ scheduler.start_hour + scheduler.slots_per_day * scheduler.interval_hours >= 24

----------------------------------------------------------------------------
(* Properties of calculate_schedule *)

\* a calculate_schedule call has been made on a valid configuration
Scheduled == schedule_call.status # "none" /\ ValidArguments(ctor_args)

\* the local wall-clock reading of the start reference of the latest call
ReferenceLocal ==
    IF schedule_call.start_date.kind = "naive" THEN schedule_call.start_date.wall
    ELSE LocalTime(scheduler.timezone,
                   schedule_call.start_date.wall - schedule_call.start_date.off)

\* start_hour of the local day `date`, as an instant
StartHourOn(self, date) ==
    InstantOfLocal(self.timezone, date * 1440 + self.start_hour * 60)

\* C11: calculate_schedule(N, ref) returns exactly N instants (none for
\* N <= 0) in strictly increasing order, for every valid configuration and
\* every start reference, given or not.
C11_ExactlyNIncreasing ==
    Scheduled =>
        /\ schedule_call.status = "ok"
        /\ Len(schedule_call.schedule) =
               (IF schedule_call.video_count <= 0 THEN 0 ELSE schedule_call.video_count)
        /\ \A i \in 1..(Len(schedule_call.schedule) - 1) :
               schedule_call.schedule[i] < schedule_call.schedule[i + 1]

\* a schedule of the largest count that rolls over to a next day and spans
\* the change of offset of its zone
C11_Witness ==
    /\ Scheduled
    /\ schedule_call.video_count = MaxCount
    /\ ~FixedOffset(scheduler.timezone)
    /\ schedule_call.schedule[1] < scheduler.timezone.trans
    /\ schedule_call.schedule[MaxCount] > scheduler.timezone.trans
    /\ schedule_call.video_count > scheduler.slots_per_day

\* C12: every instant calculate_schedule returns, viewed in the scheduler's
\* zone, has start_hour <= hour <= end_hour, for every valid configuration
\* (those where end_hour + interval_hours reaches 24 included).
C12_ScheduleHoursWithinWindow ==
    Scheduled =>
        \A i \in 1..Len(schedule_call.schedule) :
            LET hour == HourOf(LocalTime(scheduler.timezone, schedule_call.schedule[i]))
            IN  scheduler.start_hour <= hour /\ hour <= scheduler.end_hour

\* C12 where no slot plus the interval reaches midnight and the zone keeps
\* one offset
C12_ScheduleHoursWithinWindow_SameDayFixedOffset ==
    (Scheduled /\ FixedOffset(scheduler.timezone)
        /\ scheduler.end_hour + scheduler.interval_hours < 24)
    => C12_ScheduleHoursWithinWindow

\* C13: for a given start reference, the i-th instant (0-based) lies
\* floor(i / slots_per_day) local days after the day of the first one, at
\* local hour start_hour + (i mod slots_per_day) * interval_hours.
C13_GridFromStartDay ==
    (Scheduled /\ schedule_call.start_date.kind # "none") =>
        \A i \in 0..(Len(schedule_call.schedule) - 1) :
            LocalTime(scheduler.timezone, schedule_call.schedule[i + 1]) =
                (DateOf(LocalTime(scheduler.timezone, schedule_call.schedule[1]))
                    + (i \div scheduler.slots_per_day)) * 1440
                + (scheduler.start_hour
                    + (i % scheduler.slots_per_day) * scheduler.interval_hours) * 60

\* C13 for references at or below start_hour or above end_hour, where no
\* slot plus the interval reaches midnight and the zone keeps one offset
C13_GridFromStartDay_FromStartHour ==
    (Scheduled /\ FixedOffset(scheduler.timezone)
        /\ scheduler.end_hour + scheduler.interval_hours < 24
        /\ (HourOf(ReferenceLocal) <= scheduler.start_hour
               \/ HourOf(ReferenceLocal) > scheduler.end_hour))
    => C13_GridFromStartDay

\* the example of the contract: start 6, end 16, interval 2, UTC,
\* calculate_schedule(8, 06:00Z of a day) gives 6,8,10,12,14,16 and 6,8
C13_ExampleReached ==
    /\ Scheduled
    /\ ctor_args = <<"UTC", 6, 16, 2>>
    /\ schedule_call.video_count = 8
    /\ schedule_call.start_date = AwareStartDate(Later(0, 360), 0)
    /\ schedule_call.schedule =
           [i \in 1..8 |-> IF i <= 6 THEN Later(0, 360 + (i - 1) * 120)
                           ELSE Later(1, 360 + (i - 7) * 120)]

\* C14: without a start reference the first instant is tomorrow (the local
\* day after `now`) at start_hour, whatever the current local time.
C14_DefaultStartsTomorrow ==
    (Scheduled /\ schedule_call.start_date.kind = "none"
        /\ schedule_call.video_count >= 1) =>
        schedule_call.schedule[1] =
            StartHourOn(scheduler,
                DateOf(LocalTime(scheduler.timezone, schedule_call.now)) + 1)

\* C15: with a start reference whose local hour is at or above end_hour
\* the first instant is the next local day at start_hour.
C15_AtOrAboveEndRolls ==
    (Scheduled /\ schedule_call.start_date.kind # "none"
        /\ schedule_call.video_count >= 1
        /\ HourOf(ReferenceLocal) >= scheduler.end_hour) =>
        schedule_call.schedule[1] = StartHourOn(scheduler, DateOf(ReferenceLocal) + 1)

\* C15 for references strictly above end_hour in zones of one offset
C15_AboveEndRolls_FixedOffset ==
    (Scheduled /\ FixedOffset(scheduler.timezone)
        /\ schedule_call.start_date.kind # "none"
        /\ HourOf(ReferenceLocal) > scheduler.end_hour)
    => C15_AtOrAboveEndRolls

\* C16: with a start reference whose local hour is below start_hour (a
\* naive midnight of --start-date D among them) the first instant is
\* start_hour of that same local day.
C16_BelowStartClampsUp ==
    (Scheduled /\ schedule_call.start_date.kind # "none"
        /\ schedule_call.video_count >= 1
        /\ HourOf(ReferenceLocal) < scheduler.start_hour) =>
        schedule_call.schedule[1] = StartHourOn(scheduler, DateOf(ReferenceLocal))

\* C16 in the zones whose offset never changes
C16_BelowStartClampsUp_FixedOffset ==
    (Scheduled /\ FixedOffset(scheduler.timezone)) => C16_BelowStartClampsUp

----------------------------------------------------------------------------
(* Properties of validate_schedule *)

Validated == validate_call.outcome # "none"

\* the local wall-clock reading of the i-th instant of the validated list
ValidatedLocal(i) == LocalTime(scheduler.timezone, validate_call.schedule[i])

\* an instant of the list is outside the window
OutOfWindow(i) ==
    \/ HourOf(ValidatedLocal(i)) < scheduler.start_hour
    \/ HourOf(ValidatedLocal(i)) > scheduler.end_hour

\* two instants on one local day that are not interval_hours apart, by
\* more than the tolerance
BadlySpaced(a, b) ==
    /\ DateOf(LocalTime(scheduler.timezone, a)) = DateOf(LocalTime(scheduler.timezone, b))
    /\ \/ b - a > scheduler.interval_hours * 60 + ToleranceMinutes
       \/ b - a < scheduler.interval_hours * 60 - ToleranceMinutes

\* the same, by the tolerance or more
SpacedOffByTolerance(a, b) ==
    /\ DateOf(LocalTime(scheduler.timezone, a)) = DateOf(LocalTime(scheduler.timezone, b))
    /\ \/ b - a >= scheduler.interval_hours * 60 + ToleranceMinutes
       \/ b - a <= scheduler.interval_hours * 60 - ToleranceMinutes

\* C17: validate_schedule rejects every list that contains an instant whose
\* local hour is below start_hour or above end_hour, wherever it stands in
\* the list; the empty list passes.
C17_RejectsOutOfWindow ==
    Validated =>
        /\ (\E i \in 1..Len(validate_call.schedule) : OutOfWindow(i))
               => validate_call.outcome = "ValueError"
        /\ validate_call.schedule = <<>> => validate_call.outcome = "True"

\* a list rejected for its last instant, the ones before it being in the
\* window and properly spaced
C17_Witness ==
    /\ Validated
    /\ Len(validate_call.schedule) >= 3
    /\ validate_call.outcome = "ValueError"
    /\ validate_call.check = "hour"
    /\ validate_call.video = Len(validate_call.schedule)

\* C18 as claimed: validate_schedule never raises.
C18_ValidateNeverRaises ==
    validate_call.outcome # "ValueError"

\* what validate_schedule does instead: it returns True or raises
\* ValueError.  It raises for every list with an instant outside the window or with two
\* neighbours in the list on one local day that are off interval_hours by
\* more than 0.1 h, and for no list without an instant outside the window
\* or such neighbours off by 0.1 h or more; the schedule-uploads run ends
\* rejected when it raises and goes on when it returns.
C18_RaisesValueErrorOnViolation ==
    Validated =>
        /\ validate_call.outcome \in {"True", "ValueError"}
        /\ (\/ \E i \in 1..Len(validate_call.schedule) : OutOfWindow(i)
            \/ \E i \in 2..Len(validate_call.schedule) :
                   BadlySpaced(validate_call.schedule[i - 1], validate_call.schedule[i]))
           => validate_call.outcome = "ValueError"
        /\ validate_call.outcome = "ValueError" =>
               \/ \E i \in 1..Len(validate_call.schedule) : OutOfWindow(i)
               \/ \E i \in 2..Len(validate_call.schedule) :
                      SpacedOffByTolerance(validate_call.schedule[i - 1],
                                           validate_call.schedule[i])
        /\ pc = "rejected" => validate_call.outcome = "ValueError"
        /\ pc = "validated" => validate_call.outcome = "True"

\* a list whose instants are all in the window, rejected for the spacing
\* of two neighbours
C18_Witness ==
    /\ Validated
    /\ validate_call.outcome = "ValueError"
    /\ validate_call.check = "interval"
    /\ \A i \in 1..Len(validate_call.schedule) : ~OutOfWindow(i)

\* C19: validate_schedule passes no list with an instant outside the
\* window, with two equal instants, or with two instants of one local day
\* that are consecutive in sorted order and not interval_hours apart,
\* whatever the order of the list.
C19_NeverPassesViolation ==
    validate_call.outcome = "True" =>
        LET n == Len(validate_call.schedule)
            at(i) == validate_call.schedule[i]
        IN  /\ \A i \in 1..n : ~OutOfWindow(i)
            /\ \A i, j \in 1..n : i # j => at(i) # at(j)
            /\ \A i, j \in 1..n :
                   (at(i) < at(j) /\ ~\E k \in 1..n : at(i) < at(k) /\ at(k) < at(j))
                       => ~BadlySpaced(at(i), at(j))

\* C19 for the lists that are in strictly increasing order
C19_NeverPassesViolation_Ascending ==
    (\A i \in 2..Len(validate_call.schedule) :
        validate_call.schedule[i - 1] < validate_call.schedule[i])
    => C19_NeverPassesViolation

----------------------------------------------------------------------------
(* Properties of the batch-schedule run *)

\* the slots assigned before the latest one, as the reservations they are
\* fed back as
FedBack ==
    [j \in 1..(Len(publish_times) - 1) |-> Video(Wire("ms000Z", publish_times[j], 0))]

\* C20: in one batch-schedule run the reservations are fetched exactly
\* once, before any slot is computed; every slot is computed from that one
\* snapshot plus the slots already assigned in the run; all slots are
\* computed before the first commit; and the commits are issued one at a
\* time, in the order of the rows, row i receiving the i-th slot.
C20_OneSnapshotSequentialCommits ==
    /\ fetches <= 1
    /\ pc \in {"start", "failed", "constructed", "listing_uploads", "listing_videos"}
           => publish_times = <<>>
    /\ (publish_times # <<>> \/ pc \in {"allocating", "committing", "done", "done_dry_run"})
           => fetches = 1 /\ existing_videos = snapshot
    /\ (Called /\ pc = "allocating") =>
           last_call.slot =
               calculate_next_available_slot(scheduler, snapshot \o FedBack,
                                             last_call.now).slot
    /\ (commits # <<>> \/ in_flight # {}) => Len(publish_times) = MaxBatch
    /\ Cardinality(in_flight) <= 1
    /\ \A call \in in_flight :
           call.row = Len(commits) + 1 /\ call.publish_at = publish_times[call.row]
    /\ \A i \in 1..Len(commits) :
           commits[i].row = i /\ commits[i].publish_at = publish_times[i]

\* a run that went through every row, one commit failing before a later
\* one succeeded, from a snapshot that held reservations, on a channel
\* where others have since scheduled a video the snapshot does not hold
C20_Witness ==
    /\ pc = "done"
    /\ Len(commits) = MaxBatch
    /\ \E i, j \in 1..Len(commits) : i < j /\ ~commits[i].updated /\ commits[j].updated
    /\ snapshot # <<>>
    /\ platform_changes = MaxPlatformChanges
    /\ \E i \in 1..Len(platform) :
           /\ platform[i].privacyStatus = "private" /\ Truthy(platform[i].publishAt)
           /\ \A k \in 1..MaxBatch : platform[i].id # RowId(k)
           /\ \A k \in 1..Len(snapshot) : snapshot[k].id # platform[i].id

----------------------------------------------------------------------------
(* Properties of the runs that commit: batch-schedule and schedule-uploads *)

\* the batch of instants the run commits: publish_schedule in
\* schedule-uploads, publish_times in batch-schedule
CommittedBatch ==
    IF schedule_call.status = "ok" THEN schedule_call.schedule ELSE publish_times

\* C21: in every run that commits publish times, the complete batch of
\* assigned instants has been checked by validate_schedule, and has passed,
\* before the first commit call is issued.
C21_ValidatedBeforeCommit ==
    (commits # <<>> \/ in_flight # {}) =>
        /\ validate_call.outcome = "True"
        /\ validate_call.schedule = CommittedBatch

\* C22: every publish time handed to the platform was produced by
\* calculate_next_available_slot for that row; no instant produced by
\* calculate_schedule is ever committed.
C22_CommittedTimesFromAllocator ==
    /\ \A call \in in_flight :
           /\ call.row <= Len(publish_times)
           /\ call.publish_at = publish_times[call.row]
    /\ \A i \in 1..Len(commits) :
           commits[i].called =>
               /\ i <= Len(publish_times)
               /\ commits[i].publish_at = publish_times[i]
    /\ (commits # <<>> \/ in_flight # {}) => schedule_call.status = "none"

\* C23: a run that takes the dry-run return has computed its whole
\* schedule, has issued no commit call (none returned, none in flight) and
\* leaves the platform with the videos it held before the run.
C23_DryRunCommitsNothing ==
    pc = "done_dry_run" =>
        /\ commits = <<>>
        /\ in_flight = {}
        /\ platform = platform_before
        /\ \/ Len(publish_times) = MaxBatch /\ schedule_call.status = "none"
           \/ /\ schedule_call.status = "ok"
              /\ Len(schedule_call.schedule) = schedule_call.video_count
              /\ validate_call.outcome = "True"

\* a schedule-uploads dry run over a full batch of files
C23_Witness ==
    /\ pc = "done_dry_run"
    /\ schedule_call.status = "ok"
    /\ Len(schedule_call.schedule) = MaxBatch

----------------------------------------------------------------------------
(* Properties of the allocation loop as a whole *)

\* C24: the publish times the allocation loop produces are in strictly
\* increasing chronological order, whatever the reservations and however
\* the clock advances between the calls.
C24_StrictlyIncreasing ==
    \A i \in 1..(Len(publish_times) - 1) : publish_times[i] < publish_times[i + 1]

\* C25: every instant calculate_next_available_slot returns is a Slot: in
\* the scheduler's zone its minutes are zero and its hour is
\* start_hour + k * interval_hours for some 0 <= k < slots_per_day, whatever
\* the reservations and on the fallback paths too.
C25_ReturnsSlot ==
    Called =>
        LET local == LocalTime(scheduler.timezone, last_call.slot)
        IN  /\ MinuteOf(local) = 0
            /\ \E k \in 0..(scheduler.slots_per_day - 1) :
                   HourOf(local) = scheduler.start_hour + k * scheduler.interval_hours

----------------------------------------------------------------------------
(* Properties of two concurrent batch-schedule runs *)

\* the videos of the channel scheduled for the instant u
HoldersOf(u) ==
    {i \in 1..Len(platform) : /\ platform[i].privacyStatus = "private"
                               /\ Truthy(platform[i].publishAt)
                               /\ InstantOf(platform[i].publishAt) = u}

\* the ids of the videos in a list of reservations
IdsOf(videos) == {videos[i].id : i \in 1..Len(videos)}
OtherRows == {other.video_data[i] : i \in 1..Len(other.video_data)}
Rows == {RowId(i) : i \in 1..MaxBatch}

\* each run fetched the reservations before the other had committed: the
\* three requests of each fetch were answered, and no video of either file
\* being scheduled when the runs start, a list holds a video of the other
\* run's file exactly when it was read after a commit of the other run
Raced ==
    /\ pc \in {"allocating", "committing", "done"}
    /\ other.pc \in {"allocating", "committing", "done"}
    /\ ~api_failed /\ video_ids # <<>>
    /\ ~other.api_failed /\ other.video_ids # <<>>
    /\ IdsOf(snapshot) \cap OtherRows = {}
    /\ IdsOf(other.existing_videos) \cap Rows = {}

\* both runs are at their end and every commit of both succeeded
BothCommittedAll ==
    /\ pc = "done"
    /\ other.pc = "done"
    /\ \A i \in 1..MaxBatch : commits[i].updated
    /\ other.updated = 1..MaxBatch

\* C26: when two batch-schedule runs for one channel each fetch the
\* reservations before the other has committed, both select the same first
\* slot and both commit it; once both have run to their end, every commit
\* having succeeded, a video of each run's file holds that publish time:
\* two videos when the files differ, the one video both runs wrote to when
\* they are the same file.  Neither run ends otherwise than done.
C26_RaceDoubleBooks ==
    /\ (Raced /\ publish_times # <<>> /\ other.publish_times # <<>>)
           => publish_times[1] = other.publish_times[1]
    /\ Raced => /\ in_flight # {} => \A call \in in_flight :
                                          call.publish_at = publish_times[call.row]
                /\ pc = "done" => Len(commits) = MaxBatch
                /\ other.pc = "done" => other.committed = MaxBatch
    /\ (Raced /\ BothCommittedAll)
           => /\ \E i \in HoldersOf(publish_times[1]) : platform[i].id = RowId(1)
              /\ \E i \in HoldersOf(publish_times[1]) :
                     platform[i].id = other.video_data[1]
              /\ OtherRows \cap Rows = {}
                     => Cardinality(HoldersOf(publish_times[1])) >= 2

\* both runs at their end after a race, the first slot held by two videos
C26_Witness ==
    /\ Raced
    /\ BothCommittedAll
    /\ Cardinality(HoldersOf(publish_times[1])) = 2

----------------------------------------------------------------------------
(* Properties of batch-schedule for a configured channel *)

\* C27: the scheduler of a batch-schedule run is built from all four
\* schedule fields of the selected channel, so every assigned publish time,
\* read in the channel's timezone, has its hour within the channel's
\* [start_hour, end_hour], whatever the global settings timezone is.
C27_ScheduledInChannelTimezone ==
    /\ (scheduler.status = "ok" /\ channel # NoChannel)
           => /\ scheduler.timezone = pytz_timezone(channel.timezone)
              /\ scheduler.start_hour = channel.start_hour
              /\ scheduler.end_hour = channel.end_hour
              /\ scheduler.interval_hours = channel.interval_hours
    /\ (Called /\ channel # NoChannel)
           => LET local == LocalTime(pytz_timezone(channel.timezone), last_call.slot)
              IN  /\ channel.start_hour <= HourOf(local)
                  /\ HourOf(local) <= channel.end_hour

----------------------------------------------------------------------------
(* Properties of schedule-uploads *)

\* C28: every schedule calculate_schedule returns passes validate_schedule
\* of the same scheduler: schedule_batch_upload never ends at the
\* validation of the schedule it has just computed.
C28_ComputedSchedulePasses ==
    /\ pc # "rejected"
    /\ pc = "validated" => validate_call.outcome = "True"

----------------------------------------------------------------------------
(* Properties of the commit loop of batch-schedule *)

\* the channel `videos` after the updates of the rows counted as updated
CommittedOn(videos) ==
    [i \in 1..Len(videos) |->
        IF \E k \in 1..Len(commits) : commits[k].updated /\ RowId(k) = videos[i].id
        THEN LET k == CHOOSE k \in 1..Len(commits) :
                          commits[k].updated /\ RowId(k) = videos[i].id
             IN  PlatformVideo(videos[i].id, "private", strftime_ms000Z(publish_times[k]))
        ELSE videos[i]]

\* C29 as the code has it: every row is gone through exactly once, in
\* order, with the slot computed for it, and its commit is attempted at
\* most once (the call retried for at most 3 attempts): once unless
\* preparing the row raises inside the try before the call, which counts
\* the row as failed without a call.  Only a call that returned counts as
\* updated and changes the platform; a failed row neither stops the
\* remaining ones nor changes their slots, and at the end updated_count +
\* failed_count is the number of rows.
C29_EveryRowHandledOnce ==
    /\ (commits # <<>> \/ in_flight # {}) => Len(publish_times) = MaxBatch
    /\ \A i \in 1..Len(commits) :
           /\ commits[i].row = i
           /\ commits[i].publish_at = publish_times[i]
           /\ commits[i].updated => commits[i].called
    /\ Cardinality(in_flight) <= 1
    /\ \A call \in in_flight :
           /\ call.row = Len(commits) + 1
           /\ call.publish_at = publish_times[call.row]
           /\ 1 <= call.attempt /\ call.attempt <= StopAfterAttempt
    /\ pc = "done" =>
           /\ Len(commits) = MaxBatch
           /\ updated_count(commits) + failed_count(commits) = MaxBatch
    /\ platform = CommittedOn(platform_before)

\* C29 as stated: the same with the commit of every row attempted exactly
\* once, no row being counted as failed without a call.
C29_EveryRowCommittedOnce ==
    /\ C29_EveryRowHandledOnce
    /\ \A i \in 1..Len(commits) : commits[i].called

\* a run at its end: a row whose call failed after its last attempt, a row
\* that failed without a call and a later row that was updated
C29_Witness ==
    /\ pc = "done"
    /\ \E i, j, k \in 1..Len(commits) :
           /\ i < k /\ j < k
           /\ commits[i].called /\ ~commits[i].updated
           /\ ~commits[j].called
           /\ commits[k].updated

----------------------------------------------------------------------------
(* Properties of batch-schedule when the platform cannot be read *)

\* C30: get_scheduled_videos never raises; when a request of it fails it
\* returns the empty list, and the run goes on, assigning every slot as the
\* allocator does for a platform without reservations plus the slots
\* already assigned, and committing those slots.
C30_FetchErrorMeansNoReservations ==
    api_failed =>
        /\ pc \in {"allocating", "committing", "done", "done_dry_run"}
        /\ existing_videos = <<>>
        /\ (Called /\ pc = "allocating") =>
               last_call.slot =
                   calculate_next_available_slot(scheduler, FedBack, last_call.now).slot
        /\ \A call \in in_flight : call.publish_at = publish_times[call.row]
        /\ \A i \in 1..Len(commits) : commits[i].publish_at = publish_times[i]
        /\ pc = "done" => Len(commits) = MaxBatch

\* a run at its end whose fetch failed and one of whose committed slots is
\* held by a video of others as well
C30_Witness ==
    /\ api_failed
    /\ pc = "done"
    /\ \E i \in 1..Len(commits) :
           /\ commits[i].updated
           /\ \E k \in HoldersOf(publish_times[i]) : platform[k].id \notin Rows

====
